---------------------------- MODULE Spec2Model ----------------------------
(***************************************************************************)
(* Verification model of the colruyt-scraper ingestion-and-diff pipeline.  *)
(*                                                                         *)
(*   SpecFetch : RequestHandler (utils/RequestHandler, latest revision):   *)
(*               proxiedRequest, getApiKey, retry/backoff, token cache.    *)
(***************************************************************************)
EXTENDS Integers, Sequences, FiniteSets, TLC

(***************************************************************************)
(* Bounds of the model.                                                    *)
(***************************************************************************)
\* number of caller slots of SpecFetch (a slot is reused call after call)
NCalls == 1

\* number of pipeline runs whose requests overlap in SpecOverlap
NOverlap == 2

\* largest number of pages a collection is split into
MaxPages == 2

\* largest number of items in the body of one page response
MaxBody == 2

\* number of distinct productIds / promotionIds upstream
NProducts == 1

NPromotions == 1

\* longest product list / promotion list handed to the ingestion writer
MaxBatch == 2

MaxPromoBatch == 1

\* last calendar day of the model (days are 0 .. MaxDay) and number of
\* ingestion runs started in one behaviour
MaxDay == 2

MaxRuns == 2

\* process.env.AMOUNT_OF_DAYS_KEPT as configured for the model
AMOUNT_OF_DAYS_KEPT == 1

\* number of proxies in process.env.PROXY_ENDPOINT
NAgents == 2

\* number of distinct response bodies upstream
NBodies == 2

\* number of scrape-and-compare runs started in one behaviour
MaxInvocations == 2

(***************************************************************************)
(* RequestHandler: constants of the class.                                 *)
(***************************************************************************)
\* RequestHandler.maxTries
maxTries == 10

\* const retryableStatusCodes = [408, 500, 502, 503, 504]
retryableStatusCodes == {408, 500, 502, 503, 504}

\* error.response is undefined for a transport error
NoResponse == 0

\* this.api_key before the bootstrap fetch (undefined, falsy)
NoKey == "undefined"

\* the value extracted from headers[0] of the bootstrap response
Token == "token"

\* options without an httpAgent
NoAgent == 0

\* response.data of a catalog response; nothing returned yet
Bodies == 1 .. NBodies

NoData == 0

\* The errors axios.get can reject with: an HTTP status outside 2xx
\* (error.response.status) or a transport error without response
\* (error.code; ECONNABORTED is the timeout of options.timeout).
AxiosErrors ==
    { [status |-> s, code |-> "ERR_BAD_RESPONSE"] : s \in {500, 502, 503, 504} }
      \cup { [status |-> s, code |-> "ERR_BAD_REQUEST"] : s \in {404, 408} }
      \cup { [status |-> NoResponse, code |-> c] : c \in {"ECONNABORTED", "ECONNRESET"} }

NoError == [status |-> NoResponse, code |-> "none"]

Calls == 1 .. NCalls

Overlapping == 1 .. NOverlap

CallIds == Calls \cup Overlapping

\* Every top-level call c owns two requests: "main", the catalog request of
\* proxiedRequest(url), and "boot", the nested
\* proxiedRequest(API_URL, {}, {}, true) that getApiKey issues for it.
Kinds == {"main", "boot"}

Requests == CallIds \X Kinds

(***************************************************************************)
(* Paginated collector: constants of getAllProducts / getAllPromotions.    *)
(***************************************************************************)
\* const productsPerPage = 250
productsPerPage == 250

\* const promotionsPerPage = 50
promotionsPerPage == 50

Resources == {"products", "promotions"}

perPage(res) == IF res = "products" THEN productsPerPage ELSE promotionsPerPage

\* Math.ceil(productCount / productsPerPage)
ceilDivFloor(n, d) == n \div d

ceilDiv(n, d) == (n + d - 1) \div d

\* the totals the count probe may report: around every page boundary
Totals(res) ==
    { t \in { k * perPage(res) + d : k \in 0 .. MaxPages, d \in {0, 1} } :
        ceilDiv(t, perPage(res)) <= MaxPages }

Pages == 1 .. MaxPages

\* the k-th item of the body of page i
Item(i, k) == <<i, k>>

\* res.products / res.promotions of a page response carrying n items
Body(i, n) == [k \in 1 .. n |-> Item(i, k)]

(***************************************************************************)
(* Store: the Sequelize models and the values of the upstream records.     *)
(***************************************************************************)
\* SQL NULL in a foreign key column
NULL == 0

\* a null / absent price value (prices are numbers >= 0)
Null == -1

PromotionIds == 1 .. NPromotions

\* technicalArticleNumber of the product with productId p (unique per product)
TanOf(p) == 100 + p

\* a technical article number that no product carries
UnknownTan == 100

\* the two versions upstream may send of a product: its attributes (name)
\* and its price fields differ between them
ApiProduct(p, v) ==
    [productId |-> p,
     technicalArticleNumber |-> TanOf(p),
     name |-> v,
     price |-> [basicPrice |-> v,
                quantityPrice |-> IF v = 1 THEN Null ELSE 1]]

ApiProducts == { ApiProduct(p, v) : p \in 1 .. NProducts, v \in {1, 2} }

\* the product records of the items of page responses: item k of page i is
\* the version of a product that upstream sent with page i (the catalog is
\* sorted by price and read page after page, so a product whose price moves
\* between two page requests is sent on both pages)
resProducts(items) ==
    [j \in DOMAIN items |-> ApiProduct(((items[j][2] - 1) % NProducts) + 1, items[j][1])]

\* linkedTechnicalArticleNumber after .split(",").map(trim): the list of
\* technical article numbers (<<>>: the field is absent)
\* a promotion with k benefit entries and k text entries
ApiPromotion(q, l, k) ==
    [promotionId |-> q,
     linkedTechnicalArticleNumber |-> l,
     benefit |-> [i \in 1 .. k |-> [benefitAmount |-> i]],
     text |-> [i \in 1 .. k |-> [text |-> i]]]

ApiPromotions ==
    { ApiPromotion(q, l, k) :
        q \in PromotionIds,
        l \in { <<>>, <<TanOf(1)>>, <<TanOf(1), UnknownTan>>, <<TanOf(NProducts), TanOf(1)>> },
        k \in {0, 1} }

\* all sequences over S of length at most n
SeqUpTo(S, n) == UNION { [1 .. k -> S] : k \in 0 .. n }

\* the empty store, as sequelize.sync() creates it
EmptyStore ==
    [Product |-> {}, Price |-> {}, PriceChange |-> {}, Promotion |-> {},
     PromotionProduct |-> {}, Benefit |-> {}, PromotionText |-> {},
     nextPriceId |-> 1, nextBenefitId |-> 1, nextTextId |-> 1,
     nextPriceChangeId |-> 1]

Tables ==
    {"Product", "Price", "PriceChange", "Promotion", "PromotionProduct",
     "Benefit", "PromotionText"}

\* the elements of a sequence
Range(f) == { f[i] : i \in DOMAIN f }

\* the increasing enumeration of a finite set of integers
RECURSIVE Sorted(_)
Sorted(S) ==
    IF S = {} THEN <<>>
    ELSE LET m == CHOOSE x \in S : \A y \in S : x <= y
         IN  <<m>> \o Sorted(S \ {m})

\* Array.from(new Map(list.map((p) => [key(p), p])).values()): one entry
\* per key, at the position of the key's first occurrence, holding the
\* record of its last occurrence.  keys[i] is the key of list[i].
uniqueByFirst(list, keys) ==
    LET firsts == { i \in DOMAIN list : \A j \in 1 .. i - 1 : keys[j] # keys[i] }
        order  == Sorted(firsts)
    IN  [n \in DOMAIN order |-> list[order[n]]]

uniqueBy(list, keys) ==
    LET firsts == { i \in DOMAIN list : \A j \in 1 .. i - 1 : keys[j] # keys[i] }
        order  == Sorted(firsts)
        last(i) == CHOOSE j \in DOMAIN list :
                      /\ keys[j] = keys[i]
                      /\ \A m \in DOMAIN list : keys[m] = keys[i] => m <= j
    IN  [n \in DOMAIN order |-> list[last(order[n])]]

\* ON DELETE of the foreign keys.  Product.hasMany(Price),
\* Product.hasMany(PriceChange), Promotion.hasMany(Benefit) and
\* Promotion.hasMany(PromotionText) name no onDelete, and Sequelize then
\* creates the nullable key with ON DELETE SET NULL; the keys of the
\* belongsToMany join table PromotionProduct get ON DELETE CASCADE.
OnDeleteHasMany == "SET NULL"

OnDeleteBelongsToMany == "CASCADE"

\* the rows of a child table after the parents with key in ids are deleted
onDelete(rows, field, ids, action) ==
    IF action = "CASCADE"
      THEN { r \in rows : r[field] \notin ids }
      ELSE { IF r[field] \in ids THEN [r EXCEPT ![field] = NULL] ELSE r : r \in rows }

\* Product.destroy({ where: { productId: { [Op.in]: ids } } })
destroyProductsSkipped(t, ids) == t

destroyProducts(t, ids) ==
    [t EXCEPT !.Product = { p \in @ : p.productId \notin ids },
              !.Price = onDelete(@, "productId", ids, OnDeleteHasMany),
              !.PriceChange = onDelete(@, "productId", ids, OnDeleteHasMany),
              !.PromotionProduct = onDelete(@, "productId", ids, OnDeleteBelongsToMany)]

\* Promotion.destroy({ where: { promotionId: { [Op.in]: ids } } })
destroyPromotions(t, ids) ==
    [t EXCEPT !.Promotion = { q \in @ : q.promotionId \notin ids },
              !.PromotionProduct = onDelete(@, "promotionId", ids, OnDeleteBelongsToMany),
              !.Benefit = onDelete(@, "promotionId", ids, OnDeleteHasMany),
              !.PromotionText = onDelete(@, "promotionId", ids, OnDeleteHasMany)]

\* where: { date: { [Op.lt]: XDaysAgo } } on the DATEONLY column: XDaysAgo
\* is rendered as a calendar date, now minus the days kept
olderThanKeptOrAtBoundary(date, now) == date <= now - AMOUNT_OF_DAYS_KEPT

olderThanKept(date, now) == date < now - AMOUNT_OF_DAYS_KEPT

\* handleStaleData.  Both findAll calls run outside the transaction and so
\* read the committed store; the three destroy calls run inside it.
handleStaleData(t, committed, products, promotions, now) ==
    LET dbProductIds == { p.productId : p \in committed.Product }
        apiProductIds == { products[i].productId : i \in DOMAIN products }
        productsToRemove == dbProductIds \ apiProductIds
        t1 == IF productsToRemove # {} THEN destroyProducts(t, productsToRemove) ELSE t
        dbPromotionIds == { q.promotionId : q \in committed.Promotion }
        apiPromotionIds == { promotions[i].promotionId : i \in DOMAIN promotions }
        promotionsToRemove == dbPromotionIds \ apiPromotionIds
        t2 == IF promotionsToRemove # {} THEN destroyPromotions(t1, promotionsToRemove) ELSE t1
    IN  [t2 EXCEPT !.Price = { r \in @ : ~olderThanKept(r.date, now) }]

\* The conflict targets of the bulk inserts.  Price.init declares only the
\* autoincrement primary key priceId and no unique index, so a new row
\* conflicts with a stored row only on priceId; the join table has the
\* composite primary key (promotionId, productId).
\* Price.bulkCreate(rows, { ignoreDuplicates: true }): INSERT ... ON
\* CONFLICT DO NOTHING, row after row
RECURSIVE insertIgnorePrices(_, _)
insertIgnorePrices(stored, rows) ==
    IF rows = <<>> THEN stored
    ELSE insertIgnorePrices(
           IF \E r \in stored : r.priceId = Head(rows).priceId
             THEN stored ELSE stored \cup {Head(rows)},
           Tail(rows))

RECURSIVE insertIgnoreLinks(_, _)
insertIgnoreLinks(stored, rows) ==
    IF rows = <<>> THEN stored
    ELSE insertIgnoreLinks(
           IF \E r \in stored : /\ r.promotionId = Head(rows).promotionId
                                /\ r.productId = Head(rows).productId
             THEN stored ELSE stored \cup {Head(rows)},
           Tail(rows))

\* saveProducts: de-duplicate, upsert the products (updateOnDuplicate on
\* every attribute), insert one price row per product dated today (the
\* default of Price.date)
saveProducts(t, products, now) ==
    LET uniqueProducts ==
            uniqueBy(products, [i \in DOMAIN products |-> products[i].productId])
        ids == { uniqueProducts[i].productId : i \in DOMAIN uniqueProducts }
        upserted == { [productId |-> uniqueProducts[i].productId,
                       technicalArticleNumber |-> uniqueProducts[i].technicalArticleNumber,
                       name |-> uniqueProducts[i].name] : i \in DOMAIN uniqueProducts }
        prices == [i \in DOMAIN uniqueProducts |->
                     [priceId |-> t.nextPriceId + i - 1,
                      productId |-> uniqueProducts[i].productId,
                      date |-> now,
                      basicPrice |-> uniqueProducts[i].price.basicPrice,
                      quantityPrice |-> uniqueProducts[i].price.quantityPrice]]
    IN  [t EXCEPT !.Product = { p \in @ : p.productId \notin ids } \cup upserted,
                  !.Price = insertIgnorePrices(@, prices),
                  !.nextPriceId = @ + Len(prices)]

\* the concatenation of a sequence of sequences
RECURSIVE Flatten(_)
Flatten(ss) == IF ss = <<>> THEN <<>> ELSE Head(ss) \o Flatten(Tail(ss))

\* apiProducts.find((p) => p.technicalArticleNumber === tan): the productId
\* of the first product of the batch with that number, NULL when none has it
findByTan(products, tan) ==
    IF \E i \in DOMAIN products : products[i].technicalArticleNumber = tan
      THEN products[CHOOSE i \in DOMAIN products :
                      /\ products[i].technicalArticleNumber = tan
                      /\ \A j \in 1 .. i - 1 : products[j].technicalArticleNumber # tan].productId
      ELSE NULL

\* the (promotionId, productId) rows derived for one promotion
linksOfNothing(promotion, products) == << >>

linksOf(promotion, products) ==
    LET found == [n \in DOMAIN promotion.linkedTechnicalArticleNumber |->
                    findByTan(products, promotion.linkedTechnicalArticleNumber[n])]
        kept  == SelectSeq(found, LAMBDA id : id # NULL)
    IN  [n \in DOMAIN kept |-> [promotionId |-> promotion.promotionId, productId |-> kept[n]]]

\* PromotionProduct / Benefit / PromotionText .destroy({ where: {
\* promotionId: { [Op.in]: apiPromotionIds } } })
destroyOfNothing(rows, apiPromotionIds) == rows

destroyOf(rows, apiPromotionIds) == { r \in rows : r.promotionId \notin apiPromotionIds }

\* savePromotions: de-duplicate, upsert the promotions, delete the links,
\* benefits and texts of the promotions of the batch, insert the derived ones
savePromotions(t, promotions, products) ==
    LET uniquePromotions ==
            uniqueBy(promotions, [i \in DOMAIN promotions |-> promotions[i].promotionId])
        apiPromotionIds == { uniquePromotions[i].promotionId : i \in DOMAIN uniquePromotions }
        upserted == { [promotionId |-> uniquePromotions[i].promotionId,
                       linkedTechnicalArticleNumber |->
                           uniquePromotions[i].linkedTechnicalArticleNumber]
                      : i \in DOMAIN uniquePromotions }
        apiPromotionProducts ==
            Flatten([i \in DOMAIN uniquePromotions |-> linksOf(uniquePromotions[i], products)])
        apiBenefits ==
            Flatten([i \in DOMAIN uniquePromotions |->
                       [n \in DOMAIN uniquePromotions[i].benefit |->
                          [promotionId |-> uniquePromotions[i].promotionId,
                           benefitAmount |-> uniquePromotions[i].benefit[n].benefitAmount]]])
        apiTexts ==
            Flatten([i \in DOMAIN uniquePromotions |->
                       [n \in DOMAIN uniquePromotions[i].text |->
                          [promotionId |-> uniquePromotions[i].promotionId,
                           text |-> uniquePromotions[i].text[n].text]]])
    IN  [t EXCEPT
           !.Promotion = { q \in @ : q.promotionId \notin apiPromotionIds } \cup upserted,
           !.PromotionProduct =
               insertIgnoreLinks(destroyOf(@, apiPromotionIds), apiPromotionProducts),
           !.Benefit =
               destroyOf(@, apiPromotionIds)
                 \cup { [id |-> t.nextBenefitId + n - 1,
                         promotionId |-> apiBenefits[n].promotionId,
                         benefitAmount |-> apiBenefits[n].benefitAmount]
                        : n \in DOMAIN apiBenefits },
           !.nextBenefitId = @ + Len(apiBenefits),
           !.PromotionText =
               destroyOf(@, apiPromotionIds)
                 \cup { [id |-> t.nextTextId + n - 1,
                         promotionId |-> apiTexts[n].promotionId,
                         text |-> apiTexts[n].text]
                        : n \in DOMAIN apiTexts },
           !.nextTextId = @ + Len(apiTexts)]

\* sequelize.transaction(async (t) => {...}): when the callback throws the
\* transaction is rolled back and the committed store stays as it was
afterRollbackKeepsWrites(committed, working) == working

afterRollback(committed, working) == committed

(***************************************************************************)
(* Price-change engine: getPriceChange (comparers/comparer.ts).            *)
(* Prices are whole numbers of a currency unit; a stored null is Null and  *)
(* a JavaScript undefined is Undefined.                                    *)
(***************************************************************************)
NDiffProducts == 1
MaxLater == 1
MaxEarlier == 1
MaxChanges == 2

Undefined == -2

DiffProducts == 1 .. NDiffProducts

\* enum PriceChangeType { BASIC = "P1", QUANTITY = "P2" }
BASIC == "P1"

QUANTITY == "P2"

PriceChangeTypes == {BASIC, QUANTITY}

\* the values a stored price column takes here
PriceValues == {0, 5, 9, 10}

\* Price.isPromoActive is a STRING column; "" stands for null and empty
\* today's Price rows, yesterday's Price rows, stored PriceChange rows
LaterRows ==
    [productId : DiffProducts,
     basicPrice : PriceValues \cup {Null},
     quantityPrice : PriceValues \cup {Null},
     isPromoActive : {"", "N", "Y"}]

EarlierRows ==
    [productId : DiffProducts,
     basicPrice : PriceValues \cup {Null},
     quantityPrice : PriceValues \cup {Null},
     isPromoActive : {""}]


\* JavaScript truthiness of a number, null or undefined
truthy(x) == x # Null /\ x # Undefined /\ x # 0

\* x ?? y
nullish(x, y) == IF x = Null \/ x = Undefined THEN y ELSE x

\* the quotient n / d of two numbers, kept exact
ratio(n, d) == [num |-> n, den |-> d]

sameRatio(a, b) == a.num * b.den = b.num * a.den

\* earlierPriceMap.get(productId): new Map(earlierList.map(price =>
\* [price.productId, price])) keeps the last row of every productId
earlierPriceMapHas(earlierList, productId) ==
    \E i \in DOMAIN earlierList : earlierList[i].productId = productId

earlierPriceMapGet(earlierList, productId) ==
    earlierList[CHOOSE i \in DOMAIN earlierList :
                  /\ earlierList[i].productId = productId
                  /\ \A j \in i + 1 .. Len(earlierList) :
                        earlierList[j].productId # productId]

\* existingPriceChangeMap.get(`${productId}-${priceType}`) is defined
existingPriceChangeMapHasProduct(priceChanges, productId, priceType) ==
    \E i \in DOMAIN priceChanges : priceChanges[i].productId = productId

existingPriceChangeMapHas(priceChanges, productId, priceType) ==
    \E i \in DOMAIN priceChanges :
       /\ priceChanges[i].productId = productId
       /\ priceChanges[i].priceChangeType = priceType

\* earlierPrice?.basicPrice, earlierPrice?.quantityPrice
earlierBasic(earlierList, productId) ==
    IF earlierPriceMapHas(earlierList, productId)
      THEN earlierPriceMapGet(earlierList, productId).basicPrice
      ELSE Undefined

earlierQuantityIsBasic(earlierList, productId) == earlierBasic(earlierList, productId)

earlierQuantity(earlierList, productId) ==
    IF earlierPriceMapHas(earlierList, productId)
      THEN earlierPriceMapGet(earlierList, productId).quantityPrice
      ELSE Undefined

\* processSinglePriceType: the records it pushes, tagged with the list
\* they are pushed to
processSinglePriceType(earlierList, priceChanges, laterPrice, priceType, newPrice, oldPrice) ==
    LET existingPriceChange ==
            existingPriceChangeMapHas(priceChanges, laterPrice.productId, priceType)
        earlierPrice == earlierPriceMapHas(earlierList, laterPrice.productId)
        hasPriceChanged == oldPrice # Undefined /\ newPrice # oldPrice
        isNewRecord == ~earlierPrice \/ ~existingPriceChange
        change == IF hasPriceChanged THEN newPrice - nullish(oldPrice, 0) ELSE 0
        percentage ==
            IF hasPriceChanged /\ truthy(oldPrice) /\ oldPrice > 0
              THEN ratio(change, oldPrice) ELSE ratio(0, 1)
        priceChangeData ==
            [productId |-> laterPrice.productId,
             priceChange |-> change,
             priceChangePercentage |-> percentage,
             involvesPromotion |-> laterPrice.isPromoActive # "",
             oldPrice |-> nullish(oldPrice, newPrice),
             newprice |-> newPrice,
             priceChangeType |-> priceType]
    IN  IF hasPriceChanged \/ isNewRecord
          THEN << [updated |-> existingPriceChange, data |-> priceChangeData] >>
          ELSE << >>

\* one iteration of `for (const laterPrice of laterList)`
processLaterPrice(earlierList, priceChanges, laterPrice) ==
    LET p1 == IF truthy(laterPrice.basicPrice)
                THEN processSinglePriceType(earlierList, priceChanges, laterPrice, BASIC,
                         laterPrice.basicPrice,
                         earlierBasic(earlierList, laterPrice.productId))
                ELSE << >>
        oldPriceForP2 ==
            nullish(earlierQuantity(earlierList, laterPrice.productId),
                    earlierBasic(earlierList, laterPrice.productId))
        p2 == IF truthy(laterPrice.quantityPrice)
                THEN processSinglePriceType(earlierList, priceChanges, laterPrice, QUANTITY,
                         laterPrice.quantityPrice, oldPriceForP2)
                ELSE << >>
    IN  p1 \o p2

\* const updatedPriceChanges = []; const newPriceChanges = []: the lists a
\* call fills are created by the call, whatever the call before returned
resultListsKept(previous) == previous

resultLists(previous) == [updatedPriceChanges |-> <<>>, newPriceChanges |-> <<>>]

\* getPriceChange(earlierList, laterList, priceChanges)
getPriceChange(earlierList, laterList, priceChanges) ==
    LET pushed == Flatten([i \in DOMAIN laterList |->
                             processLaterPrice(earlierList, priceChanges, laterList[i])])
        updated == SelectSeq(pushed, LAMBDA e : e.updated)
        new == SelectSeq(pushed, LAMBDA e : ~e.updated)
    IN  [updatedPriceChanges |-> [i \in DOMAIN updated |-> updated[i].data],
         newPriceChanges |-> [i \in DOMAIN new |-> new[i].data]]

(***************************************************************************)
(* Price-change run: comparer() (comparer.ts) on the store.                *)
(***************************************************************************)
MaxCompares == 2

\* number of days the daily schedule of SpecDaily runs
MaxDaily == 3

\* the three queries of comparer()
Queries == {"today", "yesterday", "changes"}

\* every order in which a query may return the rows of S
Orderings(S) ==
    { s \in [1 .. Cardinality(S) -> S] : \A i, j \in 1 .. Cardinality(S) : i # j => s[i] # s[j] }

\* a Price row as findAll returns it; the snapshots of this model carry no
\* isPromoActive, so the column is empty
\* Price.findAll({ where: { date: { [Op.eq]: day } }, order: ["date"] }):
\* the rows of the day, in any order
pricesOfDay(store, day) ==
    { [priceId |-> r.priceId, productId |-> r.productId, date |-> r.date,
       basicPrice |-> r.basicPrice, quantityPrice |-> r.quantityPrice,
       isPromoActive |-> ""] : r \in { x \in store.Price : x.date = day } }

\* the rows of a table in the order of their key
RECURSIVE rowsById(_)
rowsById(rows) ==
    IF rows = {} THEN <<>>
    ELSE LET m == CHOOSE r \in rows : \A o \in rows : r.pricechangeId <= o.pricechangeId
         IN  <<m>> \o rowsById(rows \ {m})

\* PriceChange.findAll()
allPriceChanges(store) == rowsById(store.PriceChange)

\* the unique index (productId, priceChangeType) of PriceChange: two rows
\* collide when they agree on both columns and productId is not NULL
sameChangeKeyNever(a, b) == FALSE

sameChangeKey(a, b) ==
    /\ a.productId # NULL
    /\ a.productId = b.productId
    /\ a.priceChangeType = b.priceChangeType

\* PriceChange.bulkCreate(newPriceChanges) is rejected by the unique index
uniqueViolation(t, new) ==
    \/ \E i \in DOMAIN new : \E r \in t.PriceChange : sameChangeKey(new[i], r)
    \/ \E i, j \in DOMAIN new : i # j /\ sameChangeKey(new[i], new[j])

\* PriceChange.bulkCreate(newPriceChanges, { transaction: t })
bulkCreateChanges(t, new) ==
    [t EXCEPT !.PriceChange =
                 @ \cup { [pricechangeId |-> t.nextPriceChangeId + i - 1,
                           productId |-> new[i].productId,
                           priceChangeType |-> new[i].priceChangeType,
                           priceChange |-> new[i].priceChange,
                           priceChangePercentage |-> new[i].priceChangePercentage,
                           involvesPromotion |-> new[i].involvesPromotion,
                           oldPrice |-> new[i].oldPrice,
                           newprice |-> new[i].newprice] : i \in DOMAIN new },
              !.nextPriceChangeId = @ + Len(new)]

\* PriceChange.update(priceChange, { where: { productId, priceChangeType } })
updateChangeOfProduct(t, priceChange) ==
    [t EXCEPT !.PriceChange =
       { IF r.productId = priceChange.productId
           THEN [pricechangeId |-> r.pricechangeId,
                 productId |-> priceChange.productId,
                 priceChangeType |-> priceChange.priceChangeType,
                 priceChange |-> priceChange.priceChange,
                 priceChangePercentage |-> priceChange.priceChangePercentage,
                 involvesPromotion |-> priceChange.involvesPromotion,
                 oldPrice |-> priceChange.oldPrice,
                 newprice |-> priceChange.newprice]
           ELSE r : r \in @ }]

updateChange(t, priceChange) ==
    [t EXCEPT !.PriceChange =
       { IF /\ r.productId = priceChange.productId
            /\ r.priceChangeType = priceChange.priceChangeType
           THEN [pricechangeId |-> r.pricechangeId,
                 productId |-> priceChange.productId,
                 priceChangeType |-> priceChange.priceChangeType,
                 priceChange |-> priceChange.priceChange,
                 priceChangePercentage |-> priceChange.priceChangePercentage,
                 involvesPromotion |-> priceChange.involvesPromotion,
                 oldPrice |-> priceChange.oldPrice,
                 newprice |-> priceChange.newprice]
           ELSE r : r \in @ }]

\* updatedPriceChanges.map(PriceChange.update): the statements run on the
\* connection of the transaction in the order they are issued
RECURSIVE updateChanges(_, _)
updateChanges(t, updated) ==
    IF updated = <<>> THEN t
    ELSE updateChanges(updateChange(t, Head(updated)), Tail(updated))

\* the transaction of comparer(): insert the new records, update the others
persistChanges(t, change) ==
    updateChanges(bulkCreateChanges(t, change.newPriceChanges), change.updatedPriceChanges)

(***************************************************************************)
(* Pipeline orchestrator: scrapeAndCompare (server.ts), scraper() and      *)
(* comparer() as sequences of awaited phases.                              *)
(***************************************************************************)
\* the awaited steps of scraper(), in program order
ScraperPhases == <<"FetchingProducts", "FetchingPromotions", "Connecting", "Ingesting">>

\* the awaited steps of comparer(), in program order
ComparerPhases == <<"LoadingSnapshots", "Diffing", "PersistingChanges">>

\* the statements of the transaction of scraper(): handleStaleData,
\* saveProducts, savePromotions
IngestWrites == 3

\* the phase whose await follows the await of phase number n, "Done" after
\* the last one
phaseAfter(phases, n) == IF n < Len(phases) THEN phases[n + 1] ELSE "Done"

\* position of a phase in its flow
phaseIndex(phases, phase) == CHOOSE n \in DOMAIN phases : phases[n] = phase

\* every await of scraper() is inside its try block (lines 232 to 248), and
\* every await of comparer() inside its own (lines 13 to 97)
insideTryButConnecting(phase) == phase # "Connecting"

insideTry(phase) == TRUE

\* scraper().then(comparer): comparer is called when the promise of
\* scraper() is fulfilled, and scraper() fulfils it on both ways out
scraperSettledAlways(p) == TRUE

scraperSettledNever(p) == FALSE

scraperSettledOnDone(p) == p = "Done"

scraperSettled(p) == p \in {"Done", "Failed"}

\* the requests getAllProducts / getAllPromotions issue for a catalog of n
\* pages: the count probe, then one request per page
requestsOf(res, n) == [k \in 1 .. n + 1 |-> <<"request", res>>]

VARIABLES
    bodies,        \* the body each page request of the collection was answered with
    httpAgent,     \* options.httpAgent of each request
    drawn,         \* the agent drawn for the latest attempt of each request
    delayTime,     \* the latest backoff delay of each request, in ms
    prevDelayTime, \* the backoff delay before the latest one
    slept,         \* number of backoff delays of each request
    data,          \* what proxiedRequest returned to each caller
    responseData,  \* response.data of the response axios.get resolved with
    api_key,      \* RequestHandler.api_key
    pc,           \* position of every request in proxiedRequest
    attempt,      \* the local `attempt` of every request
    error,        \* the caught `error` of every request (NoError: none)
    gets,         \* number of axios.get calls every request has issued
    xCgApikey,    \* headers["X-Cg-Apikey"] of every main request
    bootFetched   \* number of bootstrap responses received successfully

VARIABLES
    resource,     \* which collector runs: getAllProducts or getAllPromotions
    colPc,        \* position of the collector
    pageCount,    \* the local pageCount
    promises,     \* state of promises[i], the proxiedRequest of page i
    collected,    \* the local array products / promotions
    returned      \* the array the collector returned

VARIABLES
    db,            \* the committed store
    tx,            \* the store as the open transaction sees it
    before,        \* the committed store when the current run started
    ingestPc,      \* position of scraper() in the ingestion transaction
    apiProducts,   \* the product snapshot of the current run
    apiPromotions, \* the promotion snapshot of the current run
    today,         \* the current calendar day
    runs,          \* number of ingestion runs started
    prev,          \* the run that ended last: its outcome and its day
    rerun          \* the current run repeats the snapshot of the run before

VARIABLES
    earlierList,          \* argument earlierList of getPriceChange
    laterList,            \* argument laterList
    priceChanges,         \* argument priceChanges
    updatedPriceChanges,  \* the returned updatedPriceChanges
    newPriceChanges,      \* the returned newPriceChanges
    diffPc,               \* "ready" before the call, "compared" after it,
                          \* "repeated" after the second call
    firstResult,          \* what the call before the last returned
    diffArgs              \* the arguments as they were passed

VARIABLES
    cmpPc,            \* position of comparer()
    cmpError,         \* what made the run fail: "unique", "store" or "none"
    cmpRuns,          \* number of price-change runs started
    cmpDay,           \* the local `today` of the run
    loaded,           \* the queries of the run that have returned
    pricesToday,      \* result of the first findAll
    pricesYesterday,  \* result of the second findAll
    storedChanges,    \* result of PriceChange.findAll()
    readFrom,         \* the committed store every query has read
    cmpBefore,        \* the committed store when the run started
    cmpPrev,          \* the run that ended last: outcome, day, tables
    cmpRerun,         \* the run repeats the one before on the same prices
    otherRun          \* the comparer() call of start-up, next to the scheduled ones

VARIABLES
    scrPc,        \* phase of scraper() in the current run
    engPc,        \* phase of comparer() in the current run
    invocations,  \* number of runs started
    events,       \* what the current run has done so far, in order
    logged,       \* errors the current run has logged
    wrote,        \* statements of the ingestion transaction that returned
    alive,        \* the process is running
    failedRuns    \* runs that ended with a flow in Failed

pipeVars == <<scrPc, engPc, invocations, events, logged, wrote, alive, failedRuns>>

compareVars ==
    <<cmpPc, cmpError, cmpRuns, cmpDay, loaded, pricesToday, pricesYesterday, storedChanges,
      readFrom, cmpBefore, cmpPrev, cmpRerun, otherRun>>

diffVars ==
    <<earlierList, laterList, priceChanges, updatedPriceChanges, newPriceChanges,
      diffPc, firstResult, diffArgs>>

ingestVars ==
    <<db, tx, before, ingestPc, apiProducts, apiPromotions, today, runs, prev,
      rerun>>

fetchVars ==
    <<api_key, pc, attempt, error, gets, xCgApikey, bootFetched, httpAgent, drawn,
      delayTime, prevDelayTime, slept, data, responseData>>

collectVars == <<resource, colPc, pageCount, promises, collected, returned, bodies>>

vars == <<fetchVars, collectVars, ingestVars, diffVars, compareVars, pipeVars>>

\* what the RequestHandler leaves alone, and what the collector leaves alone
notFetch == <<collectVars, ingestVars, diffVars, compareVars, pipeVars>>

notCollect == <<fetchVars, ingestVars, diffVars, compareVars, pipeVars>>

notIngest == <<fetchVars, collectVars, diffVars, compareVars, pipeVars>>

notPipe == <<fetchVars, collectVars, ingestVars, diffVars, compareVars>>

\* comparer() leaves everything of the ingestion writer alone but the store
notCompare ==
    <<fetchVars, collectVars, diffVars, pipeVars, tx, before, ingestPc, apiProducts,
      apiPromotions, today, runs, prev, rerun>>

\* const isRetryable = (axiosError.response &&
\*   retryableStatusCodes.includes(axiosError.response.status)) ||
\*   axiosError.code === "ECONNABORTED"
isRetryableAll(e) == TRUE

isRetryable(e) ==
    \/ (e.status # NoResponse /\ e.status \in retryableStatusCodes)
    \/ e.code = "ECONNABORTED"

\* options = { httpAgent: agent, ...options }: the properties of the old
\* options are spread after httpAgent and win over it
withAgent(options, agent) == IF options # NoAgent THEN options ELSE agent

\* const delayTime = Math.pow(2, attempt) * 1000 + Math.random() * 1000
delayTimeFlat(a, jitter) == 1000 + jitter

delayTimeOf(a, jitter) == (2 ^ a) * 1000 + jitter

\* if (attempt >= this.maxTries) { ... throw error; }
budgetExhaustedLate(a) == a > maxTries

budgetExhausted(a) == a >= maxTries

\* getApiKey awaits the bootstrap proxiedRequest outside any try block:
\* when request r is a bootstrap request and its a-th attempt makes it throw
\* e, getApiKey throws e too, before this.api_key is assigned
getApiKeyThrowsNever(r, a, e) == FALSE

getApiKeyThrows(r, a, e) == r[2] = "boot" /\ (budgetExhausted(a) \/ ~isRetryable(e))

\* proxiedRequest(url) is called: `await this.getApiKey()`.  With a cached
\* key the header is set and the first axios.get is issued; without one
\* getApiKey issues the bootstrap request and the caller waits for it.
Call(c, agent) ==
    /\ pc[<<c, "main">>] = "idle"
    /\ IF api_key # NoKey
         THEN /\ xCgApikey' = [xCgApikey EXCEPT ![c] = api_key]
              /\ pc' = [pc EXCEPT ![<<c, "main">>] = "inflight"]
              /\ gets' = [gets EXCEPT ![<<c, "main">>] = @ + 1]
              /\ drawn' = [drawn EXCEPT ![<<c, "main">>] = agent]
              /\ httpAgent' = [httpAgent EXCEPT ![<<c, "main">>] = withAgent(@, agent)]
         ELSE /\ pc' = [pc EXCEPT ![<<c, "main">>] = "awaitKey",
                                  ![<<c, "boot">>] = "inflight"]
              /\ gets' = [gets EXCEPT ![<<c, "boot">>] = @ + 1]
              /\ drawn' = [drawn EXCEPT ![<<c, "boot">>] = agent]
              /\ httpAgent' = [httpAgent EXCEPT ![<<c, "boot">>] = withAgent(@, agent)]
              /\ UNCHANGED xCgApikey
    /\ UNCHANGED <<api_key, attempt, error, bootFetched>>
    /\ UNCHANGED <<delayTime, prevDelayTime, slept, data, responseData>>
    /\ UNCHANGED notFetch

\* axios.get of a catalog request resolves: return response.data
MainSucceeds(c, body) ==
    /\ pc[<<c, "main">>] = "inflight"
    /\ pc' = [pc EXCEPT ![<<c, "main">>] = "done"]
    /\ responseData' = [responseData EXCEPT ![c] = body]
    /\ data' = [data EXCEPT ![c] = body]
    /\ UNCHANGED <<api_key, attempt, error, gets, xCgApikey, bootFetched>>
    /\ UNCHANGED <<httpAgent, drawn, delayTime, prevDelayTime, slept>>
    /\ UNCHANGED notFetch

\* axios.get of the bootstrap request resolves: getApiKey stores the key
\* (this.api_key = headers[0].split(": ")[1]) and returns it; the caller
\* sets its header and issues its first axios.get.
BootSucceeds(c, agent) ==
    /\ pc[<<c, "boot">>] = "inflight"
    /\ api_key' = Token
    /\ bootFetched' = bootFetched + 1
    /\ xCgApikey' = [xCgApikey EXCEPT ![c] = Token]
    /\ pc' = [pc EXCEPT ![<<c, "boot">>] = "done",
                        ![<<c, "main">>] = "inflight"]
    /\ gets' = [gets EXCEPT ![<<c, "main">>] = @ + 1]
    /\ drawn' = [drawn EXCEPT ![<<c, "main">>] = agent]
    /\ httpAgent' = [httpAgent EXCEPT ![<<c, "main">>] = withAgent(@, agent)]
    /\ UNCHANGED <<attempt, error, delayTime, prevDelayTime, slept, data, responseData>>
    /\ UNCHANGED notFetch

\* axios.get rejects with e: the catch block of proxiedRequest; a
\* retryable error within the budget starts the backoff delay.
\* A request that throws while it is the bootstrap request of c makes
\* getApiKey, and so the proxiedRequest of c, throw the same error.
Fails(r, e, jitter) ==
    /\ pc[r] = "inflight"
    /\ attempt' = [attempt EXCEPT ![r] = @ + 1]
    /\ error' = IF getApiKeyThrows(r, attempt[r] + 1, e)
                  THEN [error EXCEPT ![r] = e, ![<<r[1], "main">>] = e]
                  ELSE [error EXCEPT ![r] = e]
    /\ pc' = IF budgetExhausted(attempt[r] + 1) \/ ~isRetryable(e)
               THEN IF getApiKeyThrows(r, attempt[r] + 1, e)
                      THEN [pc EXCEPT ![r] = "failed", ![<<r[1], "main">>] = "failed"]
                      ELSE [pc EXCEPT ![r] = "failed"]
               ELSE [pc EXCEPT ![r] = "sleeping"]
    /\ IF budgetExhausted(attempt[r] + 1) \/ ~isRetryable(e)
         THEN UNCHANGED <<delayTime, prevDelayTime, slept>>
         ELSE /\ delayTime' = [delayTime EXCEPT ![r] = delayTimeOf(attempt[r] + 1, jitter)]
              /\ prevDelayTime' = [prevDelayTime EXCEPT ![r] = delayTime[r]]
              /\ slept' = [slept EXCEPT ![r] = @ + 1]
    /\ UNCHANGED <<api_key, gets, xCgApikey, bootFetched>>
    /\ UNCHANGED <<httpAgent, drawn, data, responseData>>
    /\ UNCHANGED notFetch

\* await delay(delayTime) returns: the catch block is left and the loop
\* issues the next axios.get
Wake(r, agent) ==
    /\ pc[r] = "sleeping"
    /\ pc' = [pc EXCEPT ![r] = "inflight"]
    /\ error' = [error EXCEPT ![r] = NoError]
    /\ gets' = [gets EXCEPT ![r] = @ + 1]
    /\ drawn' = [drawn EXCEPT ![r] = agent]
    /\ httpAgent' = [httpAgent EXCEPT ![r] = withAgent(@, agent)]
    /\ UNCHANGED <<api_key, attempt, xCgApikey, bootFetched>>
    /\ UNCHANGED <<delayTime, prevDelayTime, slept, data, responseData>>
    /\ UNCHANGED notFetch

\* The caller has consumed the settled promise of call c: the frames of the
\* call are gone and the slot can carry the caller's next proxiedRequest.
Return(c) ==
    /\ pc[<<c, "main">>] \in {"done", "failed"}
    /\ pc' = [pc EXCEPT ![<<c, "main">>] = "idle", ![<<c, "boot">>] = "idle"]
    /\ attempt' = [attempt EXCEPT ![<<c, "main">>] = 0, ![<<c, "boot">>] = 0]
    /\ error' = [error EXCEPT ![<<c, "main">>] = NoError, ![<<c, "boot">>] = NoError]
    /\ gets' = [gets EXCEPT ![<<c, "main">>] = 0, ![<<c, "boot">>] = 0]
    /\ xCgApikey' = [xCgApikey EXCEPT ![c] = NoKey]
    /\ httpAgent' = [httpAgent EXCEPT ![<<c, "main">>] = NoAgent, ![<<c, "boot">>] = NoAgent]
    /\ drawn' = [drawn EXCEPT ![<<c, "main">>] = NoAgent, ![<<c, "boot">>] = NoAgent]
    /\ delayTime' = [delayTime EXCEPT ![<<c, "main">>] = 0, ![<<c, "boot">>] = 0]
    /\ prevDelayTime' = [prevDelayTime EXCEPT ![<<c, "main">>] = 0, ![<<c, "boot">>] = 0]
    /\ slept' = [slept EXCEPT ![<<c, "main">>] = 0, ![<<c, "boot">>] = 0]
    /\ data' = [data EXCEPT ![c] = NoData]
    /\ responseData' = [responseData EXCEPT ![c] = NoData]
    /\ UNCHANGED <<api_key, bootFetched>>
    /\ UNCHANGED notFetch

(***************************************************************************)
(* Paginated collector (scrapers/productScraper, scrapers/promotionScaper) *)
(* Every page request is one proxiedRequest; the collector sees only how   *)
(* its promise settles.                                                    *)
(***************************************************************************)
\* nothing requested, nothing collected
Init ==
    /\ api_key = NoKey
    /\ pc = [r \in Requests |-> "idle"]
    /\ attempt = [r \in Requests |-> 0]
    /\ error = [r \in Requests |-> NoError]
    /\ gets = [r \in Requests |-> 0]
    /\ xCgApikey = [c \in CallIds |-> NoKey]
    /\ bootFetched = 0
    /\ httpAgent = [r \in Requests |-> NoAgent]
    /\ drawn = [r \in Requests |-> NoAgent]
    /\ delayTime = [r \in Requests |-> 0]
    /\ prevDelayTime = [r \in Requests |-> 0]
    /\ slept = [r \in Requests |-> 0]
    /\ data = [c \in CallIds |-> NoData]
    /\ responseData = [c \in CallIds |-> NoData]
    /\ resource = "products"
    /\ colPc = "idle"
    /\ pageCount = 0
    /\ promises = [i \in Pages |-> "none"]
    /\ collected = <<>>
    /\ returned = <<>>
    /\ bodies = [i \in Pages |-> <<>>]
    /\ db = EmptyStore
    /\ tx = EmptyStore
    /\ before = EmptyStore
    /\ ingestPc = "idle"
    /\ apiProducts = <<>>
    /\ apiPromotions = <<>>
    /\ today = 0
    /\ runs = 0
    /\ prev = [outcome |-> "none", day |-> 0]
    /\ rerun = FALSE
    /\ earlierList = <<>>
    /\ laterList = <<>>
    /\ priceChanges = <<>>
    /\ updatedPriceChanges = <<>>
    /\ newPriceChanges = <<>>
    /\ diffPc = "ready"
    /\ firstResult = [updatedPriceChanges |-> <<>>, newPriceChanges |-> <<>>]
    /\ diffArgs = <<earlierList, laterList, priceChanges>>
    /\ cmpPc = "idle"
    /\ cmpError = "none"
    /\ cmpRuns = 0
    /\ cmpDay = 0
    /\ loaded = {}
    /\ pricesToday = <<>>
    /\ pricesYesterday = <<>>
    /\ storedChanges = <<>>
    /\ readFrom = [q \in Queries |-> EmptyStore]
    /\ cmpBefore = EmptyStore
    /\ cmpPrev = [outcome |-> "none", error |-> "none", day |-> 0, before |-> {},
                  Price |-> {}, PriceChange |-> {}]
    /\ cmpRerun = FALSE
    /\ otherRun = [pc |-> "idle", pricesToday |-> <<>>, pricesYesterday |-> <<>>,
                   storedChanges |-> <<>>, readAt |-> 0, wroteAt |-> 0,
                   firstLoaded |-> FALSE]
    /\ scrPc = "Idle"
    /\ engPc = "Idle"
    /\ invocations = 0
    /\ events = <<>>
    /\ logged = 0
    /\ wrote = 0
    /\ alive = TRUE
    /\ failedRuns = 0

\* products.push(...res.products) / promotions.push(...res.promotions)
pushInstead(array, items) == items

push(array, items) == array \o items

\* getAllProducts() / getAllPromotions() is called: the count probe is sent
StartCollect(res) ==
    /\ colPc = "idle"
    /\ resource' = res
    /\ colPc' = "probing"
    /\ pageCount' = 0
    /\ promises' = [i \in Pages |-> "none"]
    /\ collected' = <<>>
    /\ returned' = <<>>
    /\ bodies' = [i \in Pages |-> <<>>]
    /\ UNCHANGED notCollect

\* the probe answers with productsFound / totalPromotionFound = total: one
\* proxiedRequest per page is started and Promise.all awaited; with no
\* page at all Promise.all([]) is fulfilled at once
ProbeFulfilled(res, total) ==
    /\ colPc = "probing"
    /\ res = resource
    /\ pageCount' = ceilDiv(total, perPage(resource))
    /\ promises' = [i \in Pages |->
                       IF i <= ceilDiv(total, perPage(resource)) THEN "pending" ELSE "none"]
    /\ colPc' = IF ceilDiv(total, perPage(resource)) = 0 THEN "returned" ELSE "paging"
    /\ UNCHANGED <<resource, collected, returned, bodies>>
    /\ UNCHANGED notCollect

\* the probe rejects: getProductCount and the collector throw
ProbeRejected ==
    /\ colPc = "probing"
    /\ colPc' = "threw"
    /\ UNCHANGED <<resource, pageCount, promises, collected, returned, bodies>>
    /\ UNCHANGED notCollect

\* promises[i] is fulfilled with a body of n items: the .then callback
\* pushes the items; await Promise.all(promises) is over once one promise
\* has rejected or, as here, all have been fulfilled
PageFulfilled(i, n) ==
    /\ promises[i] = "pending"
    /\ promises' = [promises EXCEPT ![i] = "fulfilled"]
    /\ bodies' = [bodies EXCEPT ![i] = Body(i, n)]
    /\ collected' = push(collected, Body(i, n))
    /\ IF colPc = "paging" /\ \A j \in 1 .. pageCount : j = i \/ promises[j] = "fulfilled"
         THEN /\ colPc' = "returned"
              /\ returned' = push(collected, Body(i, n))
         ELSE UNCHANGED <<colPc, returned>>
    /\ UNCHANGED <<resource, pageCount>>
    /\ UNCHANGED notCollect

\* promises[i] rejects: the derived promise logs it (.catch(console.error));
\* Promise.all(promises) waits on promises[i] itself, rejects with it, and
\* the await throws out of the collector
PageRejectedTolerated(i) ==
    /\ promises[i] = "pending"
    /\ promises' = [promises EXCEPT ![i] = "rejected"]
    /\ IF colPc = "paging" /\ \A j \in 1 .. pageCount : j = i \/ promises[j] # "pending"
         THEN /\ colPc' = "returned"
              /\ returned' = collected
         ELSE UNCHANGED <<colPc, returned>>
    /\ UNCHANGED <<resource, pageCount, collected, bodies>>
    /\ UNCHANGED notCollect

PageRejected(i) ==
    /\ promises[i] = "pending"
    /\ promises' = [promises EXCEPT ![i] = "rejected"]
    /\ colPc' = IF colPc = "paging" THEN "threw" ELSE colPc
    /\ UNCHANGED <<resource, pageCount, collected, returned, bodies>>
    /\ UNCHANGED notCollect

\* the caller has taken the result; the next collection can start
CollectDone ==
    /\ colPc \in {"returned", "threw"}
    /\ \A i \in Pages : promises[i] # "pending"
    /\ colPc' = "idle"
    /\ UNCHANGED <<resource, pageCount, promises, collected, returned, bodies>>
    /\ UNCHANGED notCollect

CollectNext ==
    \/ \E res \in Resources : StartCollect(res)
    \/ \E res \in Resources : \E total \in Totals(res) : ProbeFulfilled(res, total)
    \/ ProbeRejected
    \/ \E i \in Pages, n \in 0 .. MaxBody : PageFulfilled(i, n)
    \/ \E i \in Pages : PageRejected(i)
    \/ CollectDone

SpecCollect == Init /\ [][CollectNext]_vars

(***************************************************************************)
(* Ingestion writer: scraper() from the opening of the transaction on.     *)
(***************************************************************************)
\* the snapshots are collected and the store is connected:
\* sequelize.transaction opens
StartIngest(products, promotions) ==
    /\ ingestPc = "idle"
    /\ runs < MaxRuns
    /\ runs' = runs + 1
    /\ apiProducts' = products
    /\ apiPromotions' = promotions
    /\ rerun' = /\ prev.outcome = "done"
                /\ prev.day = today
                /\ products = apiProducts
                /\ promotions = apiPromotions
    /\ before' = db
    /\ tx' = db
    /\ ingestPc' = "stale"
    /\ UNCHANGED <<db, today, prev>>
    /\ UNCHANGED notIngest

\* await handleStaleData(apiProducts, apiPromotions, t)
HandleStaleData ==
    /\ ingestPc = "stale"
    /\ tx' = handleStaleData(tx, db, apiProducts, apiPromotions, today)
    /\ ingestPc' = "products"
    /\ UNCHANGED <<db, before, apiProducts, apiPromotions, today, runs, prev, rerun>>
    /\ UNCHANGED notIngest

\* await saveProducts(apiProducts, t)
SaveProducts ==
    /\ ingestPc = "products"
    /\ tx' = saveProducts(tx, apiProducts, today)
    /\ ingestPc' = "promotions"
    /\ UNCHANGED <<db, before, apiProducts, apiPromotions, today, runs, prev, rerun>>
    /\ UNCHANGED notIngest

\* await savePromotions(apiPromotions, apiProducts, t); the callback
\* returns and the transaction commits
SavePromotions ==
    /\ ingestPc = "promotions"
    /\ tx' = savePromotions(tx, apiPromotions, apiProducts)
    /\ db' = savePromotions(tx, apiPromotions, apiProducts)
    /\ ingestPc' = "done"
    /\ UNCHANGED <<before, apiProducts, apiPromotions, today, runs, prev, rerun>>
    /\ UNCHANGED notIngest

\* the step the run is about to execute throws (a store error): the
\* transaction is rolled back, scraper() logs the error
IngestFails ==
    /\ ingestPc \in {"stale", "products", "promotions"}
    /\ db' = afterRollback(db, tx)
    /\ ingestPc' = "failed"
    /\ UNCHANGED <<tx, before, apiProducts, apiPromotions, today, runs, prev, rerun>>
    /\ UNCHANGED notIngest

\* scraper() returns; the next invocation starts afresh.  What stays of the
\* run is its outcome and, when it committed, its snapshot.
EndIngest ==
    /\ ingestPc \in {"done", "failed"}
    /\ prev' = [outcome |-> ingestPc, day |-> today]
    /\ apiProducts' = IF ingestPc = "done" THEN apiProducts ELSE <<>>
    /\ apiPromotions' = IF ingestPc = "done" THEN apiPromotions ELSE <<>>
    /\ ingestPc' = "idle"
    /\ tx' = db
    /\ before' = db
    /\ rerun' = FALSE
    /\ UNCHANGED <<db, today, runs>>
    /\ UNCHANGED notIngest

\* midnight passes between two runs
NextDay ==
    /\ ingestPc = "idle"
    /\ today < MaxDay
    /\ today' = today + 1
    /\ UNCHANGED <<db, tx, before, ingestPc, apiProducts, apiPromotions, runs, prev,
                   rerun>>
    /\ UNCHANGED notIngest

IngestNext ==
    \/ \E products \in SeqUpTo(ApiProducts, MaxBatch),
          promotions \in SeqUpTo(ApiPromotions, MaxPromoBatch) :
          StartIngest(products, promotions)
    \/ HandleStaleData
    \/ SaveProducts
    \/ SavePromotions
    \/ IngestFails
    \/ EndIngest
    \/ NextDay

SpecIngest == Init /\ [][IngestNext]_vars

(***************************************************************************)
(* scraper() from its first collection to the commit: the collector of one *)
(* resource step by step, the other collection as the list it returned.    *)
(***************************************************************************)
\* both collections have returned and the store is connected: the
\* transaction runs on the snapshots and commits.  The collector the model
\* follows has returned `returned`; the other one returned an empty catalog.
SnapshotIngested ==
    /\ colPc = "returned"
    /\ ingestPc = "idle"
    /\ runs < MaxRuns
    /\ runs' = runs + 1
    /\ apiProducts' = IF resource = "products" THEN resProducts(returned) ELSE <<>>
    /\ apiPromotions' =
          IF resource = "products" THEN <<>>
          ELSE [j \in DOMAIN returned |->
                  ApiPromotion(((returned[j][2] - 1) % NPromotions) + 1,
                               <<TanOf(1)>>, returned[j][1] - 1)]
    /\ db' = savePromotions(
                saveProducts(handleStaleData(db, db, apiProducts', apiPromotions', today),
                             apiProducts', today),
                apiPromotions', apiProducts')
    /\ tx' = db'
    /\ before' = db
    /\ prev' = [outcome |-> "done", day |-> today]
    /\ colPc' = "idle"
    /\ UNCHANGED <<ingestPc, today, rerun>>
    /\ UNCHANGED <<resource, pageCount, promises, collected, returned, bodies>>
    /\ UNCHANGED <<fetchVars, diffVars, compareVars, pipeVars>>

ScrapeNext ==
    \/ \E res \in Resources : StartCollect(res)
    \/ \E res \in Resources : \E total \in Totals(res) : ProbeFulfilled(res, total)
    \/ ProbeRejected
    \/ \E i \in Pages, n \in 0 .. MaxBody : PageFulfilled(i, n)
    \/ \E i \in Pages : PageRejected(i)
    \/ CollectDone
    \/ SnapshotIngested

SpecScrape == Init /\ [][ScrapeNext]_vars

(***************************************************************************)
(* Price-change engine: one call of getPriceChange on every input.         *)
(***************************************************************************)
\* the arguments of the call: yesterday's rows, today's rows and the stored
\* change records
DiffInit ==
    /\ api_key = NoKey
    /\ pc = [r \in Requests |-> "idle"]
    /\ attempt = [r \in Requests |-> 0]
    /\ error = [r \in Requests |-> NoError]
    /\ gets = [r \in Requests |-> 0]
    /\ xCgApikey = [c \in CallIds |-> NoKey]
    /\ bootFetched = 0
    /\ httpAgent = [r \in Requests |-> NoAgent]
    /\ drawn = [r \in Requests |-> NoAgent]
    /\ delayTime = [r \in Requests |-> 0]
    /\ prevDelayTime = [r \in Requests |-> 0]
    /\ slept = [r \in Requests |-> 0]
    /\ data = [c \in CallIds |-> NoData]
    /\ responseData = [c \in CallIds |-> NoData]
    /\ resource = "products"
    /\ colPc = "idle"
    /\ pageCount = 0
    /\ promises = [i \in Pages |-> "none"]
    /\ collected = <<>>
    /\ returned = <<>>
    /\ bodies = [i \in Pages |-> <<>>]
    /\ db = EmptyStore
    /\ tx = EmptyStore
    /\ before = EmptyStore
    /\ ingestPc = "idle"
    /\ apiProducts = <<>>
    /\ apiPromotions = <<>>
    /\ today = 0
    /\ runs = 0
    /\ prev = [outcome |-> "none", day |-> 0]
    /\ rerun = FALSE
    /\ earlierList \in SeqUpTo(EarlierRows, MaxEarlier)
    /\ laterList \in SeqUpTo(LaterRows, MaxLater)
    /\ priceChanges \in SeqUpTo([productId : DiffProducts, priceChangeType : PriceChangeTypes],
                                 MaxChanges)
    /\ updatedPriceChanges = <<>>
    /\ newPriceChanges = <<>>
    /\ diffPc = "ready"
    /\ firstResult = [updatedPriceChanges |-> <<>>, newPriceChanges |-> <<>>]
    /\ diffArgs = <<earlierList, laterList, priceChanges>>
    /\ cmpPc = "idle"
    /\ cmpError = "none"
    /\ cmpRuns = 0
    /\ cmpDay = 0
    /\ loaded = {}
    /\ pricesToday = <<>>
    /\ pricesYesterday = <<>>
    /\ storedChanges = <<>>
    /\ readFrom = [q \in Queries |-> EmptyStore]
    /\ cmpBefore = EmptyStore
    /\ cmpPrev = [outcome |-> "none", error |-> "none", day |-> 0, before |-> {},
                  Price |-> {}, PriceChange |-> {}]
    /\ cmpRerun = FALSE
    /\ otherRun = [pc |-> "idle", pricesToday |-> <<>>, pricesYesterday |-> <<>>,
                   storedChanges |-> <<>>, readAt |-> 0, wroteAt |-> 0,
                   firstLoaded |-> FALSE]
    /\ scrPc = "Idle"
    /\ engPc = "Idle"
    /\ invocations = 0
    /\ events = <<>>
    /\ logged = 0
    /\ wrote = 0
    /\ alive = TRUE
    /\ failedRuns = 0

\* await getPriceChange(pricesYesterday, pricesToday, priceChanges), the
\* first time and once more on the same arguments
GetPriceChange ==
    /\ diffPc \in {"ready", "compared"}
    /\ firstResult' = [updatedPriceChanges |-> updatedPriceChanges,
                       newPriceChanges |-> newPriceChanges]
    /\ LET lists == resultLists([updatedPriceChanges |-> updatedPriceChanges,
                                 newPriceChanges |-> newPriceChanges])
           change == getPriceChange(earlierList, laterList, priceChanges)
       IN  /\ updatedPriceChanges' = lists.updatedPriceChanges \o change.updatedPriceChanges
           /\ newPriceChanges' = lists.newPriceChanges \o change.newPriceChanges
    /\ diffPc' = IF diffPc = "ready" THEN "compared" ELSE "repeated"
    /\ UNCHANGED <<earlierList, laterList, priceChanges, diffArgs>>
    /\ UNCHANGED <<fetchVars, collectVars, ingestVars, compareVars, pipeVars>>

DiffNext == GetPriceChange

SpecDiff == DiffInit /\ [][DiffNext]_vars

(***************************************************************************)
(* Price-change run on the store, next to the ingestion writer.            *)
(***************************************************************************)
\* comparer() is called: authenticate, sync, and the three queries are sent
StartCompare ==
    /\ cmpPc = "idle"
    /\ cmpRuns < MaxCompares
    /\ cmpRuns' = cmpRuns + 1
    /\ cmpDay' = today
    /\ cmpPc' = "loading"
    /\ cmpError' = "none"
    /\ loaded' = {}
    /\ cmpBefore' = db
    /\ cmpRerun' = /\ cmpPrev.outcome # "none"
                   /\ cmpPrev.day = today
                   /\ cmpPrev.before = db.Price
                   /\ cmpPrev.Price = db.Price
    /\ UNCHANGED <<db, pricesToday, pricesYesterday, storedChanges, readFrom, cmpPrev>>
    /\ UNCHANGED otherRun
    /\ UNCHANGED notCompare

\* Price.findAll of today returns: it has read the committed store
LoadToday ==
    /\ cmpPc = "loading"
    /\ "today" \notin loaded
    /\ \E rows \in Orderings(pricesOfDay(db, cmpDay)) : pricesToday' = rows
    /\ loaded' = loaded \cup {"today"}
    /\ readFrom' = [readFrom EXCEPT !["today"] = db]
    /\ UNCHANGED <<db, cmpPc, cmpError, cmpRuns, cmpDay, pricesYesterday, storedChanges, cmpBefore,
                   cmpPrev, cmpRerun>>
    /\ UNCHANGED otherRun
    /\ UNCHANGED notCompare

\* Price.findAll of yesterday returns
LoadYesterday ==
    /\ cmpPc = "loading"
    /\ "yesterday" \notin loaded
    /\ \E rows \in Orderings(pricesOfDay(db, cmpDay - 1)) : pricesYesterday' = rows
    /\ loaded' = loaded \cup {"yesterday"}
    /\ readFrom' = [readFrom EXCEPT !["yesterday"] = db]
    /\ UNCHANGED <<db, cmpPc, cmpError, cmpRuns, cmpDay, pricesToday, storedChanges, cmpBefore,
                   cmpPrev, cmpRerun>>
    /\ UNCHANGED otherRun
    /\ UNCHANGED notCompare

\* PriceChange.findAll() returns
LoadChanges ==
    /\ cmpPc = "loading"
    /\ "changes" \notin loaded
    /\ storedChanges' = allPriceChanges(db)
    /\ loaded' = loaded \cup {"changes"}
    /\ readFrom' = [readFrom EXCEPT !["changes"] = db]
    /\ UNCHANGED <<db, cmpPc, cmpError, cmpRuns, cmpDay, pricesToday, pricesYesterday, cmpBefore,
                   cmpPrev, cmpRerun>>
    /\ UNCHANGED otherRun
    /\ UNCHANGED notCompare

\* Promise.all of the queries is fulfilled: getPriceChange, then the
\* transaction that inserts and updates.  A record the unique index rejects
\* makes bulkCreate throw: the transaction is rolled back and the error is
\* logged.  The store runs the write transactions of the two flows one
\* after the other.
PersistChanges ==
    /\ cmpPc = "loading"
    /\ loaded = Queries
    /\ ingestPc \notin {"stale", "products", "promotions"}
    /\ LET change == getPriceChange(pricesYesterday, pricesToday, storedChanges)
       IN  IF uniqueViolation(db, change.newPriceChanges)
             THEN /\ db' = afterRollback(db, bulkCreateChanges(db, change.newPriceChanges))
                  /\ cmpPc' = "failed"
                  /\ cmpError' = "unique"
             ELSE /\ db' = persistChanges(db, change)
                  /\ cmpPc' = "done"
                  /\ cmpError' = "none"
    /\ UNCHANGED <<cmpRuns, cmpDay, loaded, pricesToday, pricesYesterday,
                   storedChanges, readFrom, cmpBefore, cmpPrev, cmpRerun>>
    /\ UNCHANGED otherRun
    /\ UNCHANGED notCompare

\* a statement of the transaction throws (a store error): bulkCreate
\* (k = 0), or the k-th update after bulkCreate and the updates before it
\* have written.  The callback throws, the transaction is rolled back and
\* comparer() logs the error.
PersistFails ==
    /\ cmpPc = "loading"
    /\ loaded = Queries
    /\ ingestPc \notin {"stale", "products", "promotions"}
    /\ LET change == getPriceChange(pricesYesterday, pricesToday, storedChanges)
       IN  \E k \in 0 .. Len(change.updatedPriceChanges) :
              /\ k > 0 => ~uniqueViolation(db, change.newPriceChanges)
              /\ db' = afterRollback(
                          db,
                          IF k = 0 THEN db
                          ELSE updateChanges(bulkCreateChanges(db, change.newPriceChanges),
                                             SubSeq(change.updatedPriceChanges, 1, k - 1)))
    /\ cmpPc' = "failed"
    /\ cmpError' = "store"
    /\ UNCHANGED <<cmpRuns, cmpDay, loaded, pricesToday, pricesYesterday,
                   storedChanges, readFrom, cmpBefore, cmpPrev, cmpRerun>>
    /\ UNCHANGED otherRun
    /\ UNCHANGED notCompare

\* a query throws (a store error): comparer() logs the error
CompareFails ==
    /\ cmpPc = "loading"
    /\ loaded # Queries
    /\ cmpPc' = "failed"
    /\ cmpError' = "store"
    /\ UNCHANGED <<db, cmpRuns, cmpDay, loaded, pricesToday, pricesYesterday,
                   storedChanges, readFrom, cmpBefore, cmpPrev, cmpRerun>>
    /\ UNCHANGED otherRun
    /\ UNCHANGED notCompare

\* comparer() returns; what stays of the run is its outcome, its day, the
\* prices it started on and the tables it left
EndCompare ==
    /\ cmpPc \in {"done", "failed"}
    /\ cmpPrev' = [outcome |-> cmpPc, error |-> cmpError, day |-> cmpDay,
                   before |-> cmpBefore.Price, Price |-> db.Price,
                   PriceChange |-> db.PriceChange]
    /\ cmpPc' = "idle"
    /\ cmpError' = "none"
    /\ loaded' = {}
    /\ pricesToday' = <<>>
    /\ pricesYesterday' = <<>>
    /\ storedChanges' = <<>>
    /\ readFrom' = [q \in Queries |-> EmptyStore]
    /\ cmpBefore' = EmptyStore
    /\ cmpRerun' = FALSE
    /\ UNCHANGED <<db, cmpRuns, cmpDay>>
    /\ UNCHANGED otherRun
    /\ UNCHANGED notCompare

\* a whole successful scraper() run as the price-change run sees it: the
\* queries of comparer() read committed rows only, so the transaction of
\* the ingestion writer takes effect for them at its commit
IngestRun(products, promotions) ==
    /\ ingestPc = "idle"
    /\ runs < MaxRuns
    /\ runs' = runs + 1
    /\ db' = savePromotions(
                saveProducts(handleStaleData(db, db, products, promotions, today),
                             products, today),
                promotions, products)
    /\ tx' = db'
    /\ before' = db'
    /\ apiProducts' = products
    /\ apiPromotions' = promotions
    /\ prev' = [outcome |-> "done", day |-> today]
    /\ UNCHANGED <<ingestPc, today, rerun>>
    /\ UNCHANGED notIngest

\* the ingestion writer with the product snapshots P, and the price-change
\* runs, on one store
StoreStep(P) ==
    \/ \E products \in P : IngestRun(products, <<>>)
    \/ NextDay
    \/ StartCompare
    \/ LoadToday
    \/ LoadYesterday
    \/ LoadChanges
    \/ PersistChanges
    \/ PersistFails
    \/ CompareFails
    \/ EndCompare

StoreNext == StoreStep(SeqUpTo(ApiProducts, 1))

SpecStore == Init /\ [][StoreNext]_vars

(***************************************************************************)
(* Two price-change runs on one store: scrapeAndCompare() is called once   *)
(* at start-up and again by the schedule, and nothing keeps one call from  *)
(* starting while the other is still running.                              *)
(***************************************************************************)
\* the comparer() call of start-up, next to the scheduled ones: its three
\* queries return while a scheduled call is running, having read the
\* committed store.  readAt is the number of transactions of the scheduled
\* calls that had ended by then.
OtherReads ==
    /\ otherRun.pc = "idle"
    /\ cmpPc = "loading"
    /\ \E rowsToday \in Orderings(pricesOfDay(db, today)) :
       \E rowsYesterday \in Orderings(pricesOfDay(db, today - 1)) :
          otherRun' = [pc |-> "loading",
                       pricesToday |-> rowsToday,
                       pricesYesterday |-> rowsYesterday,
                       storedChanges |-> allPriceChanges(db),
                       readAt |-> IF cmpPc = "loading" THEN cmpRuns - 1 ELSE cmpRuns,
                       wroteAt |-> 0,
                       firstLoaded |-> FALSE]
    /\ UNCHANGED <<db, cmpPc, cmpError, cmpRuns, cmpDay, loaded, pricesToday, pricesYesterday,
                   storedChanges, readFrom, cmpBefore, cmpPrev, cmpRerun>>
    /\ UNCHANGED notCompare

\* the call of start-up: getPriceChange on what it read, then its transaction.
\* The store runs the transactions of the two calls one after the other; a
\* record the unique index rejects makes bulkCreate throw, the transaction
\* is rolled back and the catch block of comparer() logs the error.
OtherPersists ==
    /\ otherRun.pc = "loading"
    /\ LET change == getPriceChange(otherRun.pricesYesterday, otherRun.pricesToday,
                                    otherRun.storedChanges)
           ended == IF cmpPc = "loading" THEN cmpRuns - 1 ELSE cmpRuns
       IN  IF uniqueViolation(db, change.newPriceChanges)
             THEN /\ db' = afterRollback(db, bulkCreateChanges(db, change.newPriceChanges))
                  /\ otherRun' = [otherRun EXCEPT
                                     !.pc = "failed",
                                     !.wroteAt = ended,
                                     !.firstLoaded = cmpPc = "loading" /\ loaded = Queries]
             ELSE /\ db' = persistChanges(db, change)
                  /\ otherRun' = [otherRun EXCEPT
                                     !.pc = "done",
                                     !.wroteAt = ended,
                                     !.firstLoaded = cmpPc = "loading" /\ loaded = Queries]
    /\ UNCHANGED <<cmpPc, cmpError, cmpRuns, cmpDay, loaded, pricesToday, pricesYesterday,
                   storedChanges, readFrom, cmpBefore, cmpPrev, cmpRerun>>
    /\ UNCHANGED notCompare

\* the call of start-up returns
OtherEnds ==
    /\ otherRun.pc \in {"done", "failed"}
    /\ otherRun' = [pc |-> "returned", pricesToday |-> <<>>, pricesYesterday |-> <<>>,
                    storedChanges |-> <<>>, readAt |-> 0, wroteAt |-> 0,
                    firstLoaded |-> FALSE]
    /\ UNCHANGED <<db, cmpPc, cmpError, cmpRuns, cmpDay, loaded, pricesToday, pricesYesterday,
                   storedChanges, readFrom, cmpBefore, cmpPrev, cmpRerun>>
    /\ UNCHANGED notCompare

\* two comparer() calls on a store that answers every statement; the
\* snapshots are ingested and midnight passes while no call is running
TwoRunsNext ==
    \/ cmpPc = "idle" /\ \E products \in SeqUpTo(ApiProducts, 1) : IngestRun(products, <<>>)
    \/ cmpPc = "idle" /\ NextDay
    \/ StartCompare
    \/ LoadToday
    \/ LoadYesterday
    \/ LoadChanges
    \/ PersistChanges
    \/ EndCompare
    \/ OtherReads
    \/ OtherPersists
    \/ OtherEnds

SpecTwoRuns == Init /\ [][TwoRunsNext]_vars

\* cron.schedule("0 8 * * *", scrapeAndCompare): the run of the next day,
\* with both flows successful: scraper() commits the snapshot, then
\* comparer() reads the store, diffs and commits its transaction
DailyRun(products) ==
    /\ ingestPc = "idle"
    /\ cmpPc = "idle"
    /\ runs < MaxDaily
    /\ LET ingested ==
               savePromotions(
                  saveProducts(handleStaleData(db, db, products, <<>>, today + 1),
                               products, today + 1),
                  <<>>, products)
       IN  \E later \in Orderings(pricesOfDay(ingested, today + 1)) :
           \E earlier \in Orderings(pricesOfDay(ingested, today)) :
              LET change == getPriceChange(earlier, later, allPriceChanges(ingested))
              IN  /\ ~uniqueViolation(ingested, change.newPriceChanges)
                  /\ db' = persistChanges(ingested, change)
    /\ today' = today + 1
    /\ runs' = runs + 1
    /\ apiProducts' = products
    /\ before' = db
    /\ UNCHANGED <<tx, ingestPc, apiPromotions, prev, rerun>>
    /\ UNCHANGED notIngest

\* the snapshots of the daily runs: the catalog is empty or holds product 1
\* with a basic price and, on some days, a quantity price
DailyNext ==
    \E products \in
          {<<>>} \cup { << [productId |-> 1,
                            technicalArticleNumber |-> TanOf(1),
                            name |-> 1,
                            price |-> [basicPrice |-> b, quantityPrice |-> q]] >> :
                          b \in {1, 2}, q \in {Null, 1, 2} } :
       DailyRun(products)

SpecDaily == Init /\ [][DailyNext]_vars

(***************************************************************************)
(* Pipeline orchestrator: one scrape-and-compare run after another.        *)
(***************************************************************************)
\* scrapeAndCompare() is called (START_MODE=SCRAPE or the cron job):
\* scraper() starts with getAllProducts
Invoke ==
    /\ scrPc = "Idle"
    /\ engPc \in {"Idle", "Done", "Failed"}
    /\ invocations < MaxInvocations
    /\ invocations' = invocations + 1
    /\ scrPc' = ScraperPhases[1]
    /\ engPc' = "Idle"
    /\ events' = << <<"enter", ScraperPhases[1]>> >>
    /\ logged' = 0
    /\ wrote' = 0
    /\ UNCHANGED <<alive, failedRuns>>
    /\ UNCHANGED notPipe

\* await getAllProducts() returns: all its requests were answered;
\* getAllPromotions is called
ProductsCollected(n) ==
    /\ scrPc = "FetchingProducts"
    /\ scrPc' = phaseAfter(ScraperPhases, 1)
    /\ events' = events \o requestsOf("products", n)
                        \o << <<"collected", "products">>,
                              <<"enter", phaseAfter(ScraperPhases, 1)>> >>
    /\ UNCHANGED <<engPc, invocations, logged, wrote, alive, failedRuns>>
    /\ UNCHANGED notPipe

\* await getAllPromotions() returns; connectToDatabase is called
PromotionsCollected(n) ==
    /\ scrPc = "FetchingPromotions"
    /\ scrPc' = phaseAfter(ScraperPhases, 2)
    /\ events' = events \o requestsOf("promotions", n)
                        \o << <<"collected", "promotions">>,
                              <<"enter", phaseAfter(ScraperPhases, 2)>> >>
    /\ UNCHANGED <<engPc, invocations, logged, wrote, alive, failedRuns>>
    /\ UNCHANGED notPipe

\* await connectToDatabase() returns; sequelize.transaction opens
Connected ==
    /\ scrPc = "Connecting"
    /\ scrPc' = phaseAfter(ScraperPhases, 3)
    /\ events' = events \o << <<"connected", "store">>,
                              <<"enter", phaseAfter(ScraperPhases, 3)>> >>
    /\ UNCHANGED <<engPc, invocations, logged, wrote, alive, failedRuns>>
    /\ UNCHANGED notPipe

\* a statement of the transaction returns; after the last one the
\* transaction commits and scraper() returns
IngestWrite ==
    /\ scrPc = "Ingesting"
    /\ wrote' = wrote + 1
    /\ scrPc' = IF wrote + 1 = IngestWrites THEN phaseAfter(ScraperPhases, 4) ELSE scrPc
    /\ events' = events \o << <<"write", "store">> >>
                        \o (IF wrote + 1 = IngestWrites
                              THEN << <<"scraper", phaseAfter(ScraperPhases, 4)>> >>
                              ELSE << >>)
    /\ UNCHANGED <<engPc, invocations, logged, alive, failedRuns>>
    /\ UNCHANGED notPipe

\* the await of the current phase of scraper() throws: the catch block logs
\* the error and scraper() returns
ScraperThrows ==
    /\ scrPc \in Range(ScraperPhases)
    /\ IF insideTry(scrPc)
         THEN /\ scrPc' = "Failed"
              /\ logged' = logged + 1
              /\ events' = events \o << <<"scraper", "Failed">> >>
              /\ UNCHANGED alive
         ELSE /\ alive' = FALSE
              /\ scrPc' = "Idle"
              /\ UNCHANGED <<logged, events>>
    /\ UNCHANGED <<engPc, invocations, wrote, failedRuns>>
    /\ UNCHANGED notPipe

\* .then(comparer): the promise of scraper() is fulfilled, comparer() starts
EngineStarts ==
    /\ alive
    /\ engPc = "Idle"
    /\ scrPc # "Idle"
    /\ scraperSettled(scrPc)
    /\ engPc' = ComparerPhases[1]
    /\ events' = events \o << <<"enter", ComparerPhases[1]>> >>
    /\ UNCHANGED <<scrPc, invocations, logged, wrote, alive, failedRuns>>
    /\ UNCHANGED notPipe

\* the await of the current phase of comparer() returns
EngineAdvances ==
    /\ engPc \in Range(ComparerPhases)
    /\ engPc' = phaseAfter(ComparerPhases, phaseIndex(ComparerPhases, engPc))
    /\ events' = events \o
           << <<IF engPc = ComparerPhases[Len(ComparerPhases)] THEN "comparer" ELSE "enter",
                phaseAfter(ComparerPhases, phaseIndex(ComparerPhases, engPc))>> >>
    /\ UNCHANGED <<scrPc, invocations, logged, wrote, alive, failedRuns>>
    /\ UNCHANGED notPipe

\* the await of the current phase of comparer() throws: the catch block
\* logs the error and comparer() returns
EngineThrows ==
    /\ engPc \in Range(ComparerPhases)
    /\ IF insideTry(engPc)
         THEN /\ engPc' = "Failed"
              /\ logged' = logged + 1
              /\ events' = events \o << <<"comparer", "Failed">> >>
              /\ UNCHANGED alive
         ELSE /\ alive' = FALSE
              /\ engPc' = "Idle"
              /\ UNCHANGED <<logged, events>>
    /\ UNCHANGED <<scrPc, invocations, wrote, failedRuns>>
    /\ UNCHANGED notPipe

\* both flows of the run have ended; the process waits for the next
\* invocation
RunEnds ==
    /\ scrPc \in {"Done", "Failed"}
    /\ engPc \in {"Done", "Failed"}
    /\ scrPc' = "Idle"
    /\ failedRuns' = IF "Failed" \in {scrPc, engPc} THEN failedRuns + 1 ELSE failedRuns
    /\ UNCHANGED <<engPc, invocations, events, logged, wrote, alive>>
    /\ UNCHANGED notPipe

PipeStep(N) ==
    \/ Invoke
    \/ \E n \in N : ProductsCollected(n)
    \/ \E n \in N : PromotionsCollected(n)
    \/ Connected
    \/ IngestWrite
    \/ ScraperThrows
    \/ EngineStarts
    \/ EngineAdvances
    \/ EngineThrows
    \/ RunEnds

\* runs over catalogs of every number of pages
PipeNext == PipeStep(0 .. MaxPages)

SpecPipe == Init /\ [][PipeNext]_vars

FetchStep(C, E, A, J, B) ==
    \/ \E c \in C, agent \in A : Call(c, agent)
    \/ \E c \in C, body \in B : MainSucceeds(c, body)
    \/ \E c \in C, agent \in A : BootSucceeds(c, agent)
    \/ \E c \in C, k \in Kinds, e \in E, jitter \in J : Fails(<<c, k>>, e, jitter)
    \/ \E c \in C, k \in Kinds, agent \in A : Wake(<<c, k>>, agent)
    \/ \E c \in C : Return(c)

\* one caller after another, answered with every error, without
\* ENABLE_PROXY
FetchNext == FetchStep(Calls, AxiosErrors, {NoAgent}, {0}, {1})

SpecFetch == Init /\ [][FetchNext]_vars

\* one caller with ENABLE_PROXY set and a pool of NAgents proxies, answered
\* with every error, the jitter Math.random() * 1000 at the two ends of
\* [0, 1000) and every body
ProxyNext == FetchStep({1}, AxiosErrors, 1 .. NAgents, {0, 999}, Bodies)

SpecProxy == Init /\ [][ProxyNext]_vars

(***************************************************************************)
(* A pipeline run next to the requests it issues, under the provision that *)
(* every awaited operation settles: an HTTP attempt completes or fails     *)
(* (options.timeout), a backoff delay ends, a store operation completes or *)
(* fails.                                                                  *)
(***************************************************************************)
\* the error every failing attempt is answered with: a retryable one
LiveErrors == { e \in AxiosErrors : e.status = 503 }

\* an await of scraper() returns or throws
ScraperProgress ==
    \/ ProductsCollected(1)
    \/ PromotionsCollected(1)
    \/ Connected
    \/ IngestWrite
    \/ ScraperThrows

\* comparer() is called, or an await of comparer() returns or throws
EngineProgress ==
    \/ EngineStarts
    \/ EngineAdvances
    \/ EngineThrows

\* the axios.get of request r resolves or rejects
AttemptSettles(r) ==
    \/ r[2] = "main" /\ MainSucceeds(r[1], 1)
    \/ r[2] = "boot" /\ BootSucceeds(r[1], NoAgent)
    \/ \E e \in LiveErrors : Fails(r, e, 0)

\* runs over catalogs of one page, and one caller of proxiedRequest
LiveNext ==
    \/ PipeStep({1})
    \/ FetchStep({1}, LiveErrors, {NoAgent}, {0}, {1})

SpecLive ==
    /\ Init
    /\ [][LiveNext]_vars
    /\ WF_vars(ScraperProgress)
    /\ WF_vars(EngineProgress)
    /\ \A k \in Kinds : WF_vars(AttemptSettles(<<1, k>>))
    /\ \A k \in Kinds : WF_vars(Wake(<<1, k>>, NoAgent))

\* the requests of overlapping pipeline runs (server.ts: the run started at
\* boot in START_MODE=SCRAPE and the run cron starts at 08:00)
\* without ENABLE_PROXY, answered with one retryable and one fatal error
OverlapNext ==
    FetchStep(Overlapping, { e \in AxiosErrors : e.status \in {503, 404} }, {NoAgent}, {0}, {1})

SpecOverlap == Init /\ [][OverlapNext]_vars

(***************************************************************************)
(* Claims about the RequestHandler.                                       *)
(***************************************************************************)
\* C1: every call of proxiedRequest issues at most maxTries GET attempts;
\* when its maxTries-th attempt fails the call has raised the error of that
\* attempt and has issued no further attempt.
C1_AttemptBudget ==
    \A r \in Requests :
        /\ gets[r] <= maxTries
        /\ attempt[r] >= maxTries =>
              /\ pc[r] = "failed"
              /\ error[r] \in AxiosErrors
              /\ gets[r] = maxTries

\* a call whose maxTries attempts all failed with retryable errors
C1_Witness ==
    \E r \in Requests :
        /\ pc[r] = "failed"
        /\ attempt[r] = maxTries
        /\ gets[r] = maxTries
        /\ error[r].status \in {408, 500, 502, 503, 504}

\* C2: a failed attempt is followed by a backoff delay and another attempt
\* only if its status is 408, 500, 502, 503 or 504 or the transport timed
\* out; after any other failure the call has raised that error at once, with
\* no attempt issued after the failed one, whatever budget was left.
C2_RetryOnlyRetryable ==
    \A r \in Requests :
        /\ pc[r] = "sleeping" =>
              \/ error[r].status \in {408, 500, 502, 503, 504}
              \/ error[r].code = "ECONNABORTED"
        /\ (pc[r] = "failed" /\ attempt[r] > 0) => gets[r] = attempt[r]
        /\ (attempt[r] > 0 /\ error[r].status \in {404}) => pc[r] = "failed"
        /\ (attempt[r] > 0 /\ error[r].code = "ECONNRESET") => pc[r] = "failed"

\* a fatal error raised on the first attempt, nine attempts still left
C2_Witness ==
    \E r \in Requests :
        /\ pc[r] = "failed"
        /\ attempt[r] = 1
        /\ gets[r] = 1
        /\ error[r].status = 404

\* C4: over any interleaving of proxiedRequest calls the bootstrap endpoint
\* is fetched successfully at most once.
C4_BootstrapOnce == bootFetched <= 1

\* C39: when the bootstrap fetch of an authenticated request fails, the
\* failure caches no token, the request raises the bootstrap error without
\* having issued a catalog request of its own, and a request called while
\* no token is cached issues the bootstrap fetch again.
C39_FailedBootstrapCachesNothing ==
    [][ \A c \in CallIds :
          /\ (pc[<<c, "boot">>] = "inflight" /\ pc'[<<c, "boot">>] = "failed") =>
                /\ api_key' = api_key
                /\ pc'[<<c, "main">>] = "failed"
                /\ error'[<<c, "main">>] = error'[<<c, "boot">>]
                /\ error'[<<c, "main">>] # NoError
                /\ gets'[<<c, "main">>] = 0
                /\ xCgApikey'[c] = NoKey
          /\ (pc[<<c, "main">>] = "idle" /\ pc'[<<c, "main">>] # "idle" /\ api_key = NoKey) =>
                /\ pc'[<<c, "main">>] = "awaitKey"
                /\ pc'[<<c, "boot">>] = "inflight"
                /\ gets'[<<c, "boot">>] = 1 ]_vars

\* the bootstrap fetch of a request has used its whole budget: the request
\* has failed with its error, no catalog request went out, no token is cached
C39_Witness ==
    \E c \in CallIds :
        /\ pc[<<c, "boot">>] = "failed"
        /\ attempt[<<c, "boot">>] = maxTries
        /\ pc[<<c, "main">>] = "failed"
        /\ gets[<<c, "main">>] = 0
        /\ api_key = NoKey

(***************************************************************************)
(* Claims about the paginated collector.                                   *)
(***************************************************************************)
\* C3: when a page request of a collection fails, the collector still
\* returns normally, and what it returns holds the items of every page that
\* succeeded and nothing for the failed page.
C3_PageFailureTolerated ==
    (colPc # "idle" /\ colPc # "probing"
       /\ (\A j \in 1 .. pageCount : promises[j] \in {"fulfilled", "rejected"})
       /\ \E i \in 1 .. pageCount : promises[i] = "rejected")
    => /\ colPc = "returned"
       /\ returned = collected

\* the bodies of the pages of the collection, page after page
RECURSIVE inPageOrder(_)
inPageOrder(n) == IF n = 0 THEN <<>> ELSE inPageOrder(n - 1) \o bodies[n]

\* number of times an item occurs in a list
occurrences(list, item) == Cardinality({j \in DOMAIN list : list[j] = item})

C30_OneRequestPerPage ==
    [][ /\ \A res \in Resources : \A total \in Totals(res) :
              ProbeFulfilled(res, total) =>
                 /\ \E k \in 0 .. MaxPages :
                       /\ k * perPage(res) >= total
                       /\ \A j \in 0 .. k - 1 : j * perPage(res) < total
                       /\ { i \in Pages : promises'[i] = "pending" } = 1 .. k
                       /\ { i \in Pages : promises'[i] = "none" } = Pages \ (1 .. k)
                 /\ total = 0 =>
                       /\ colPc' = "returned"
                       /\ returned' = <<>>
        /\ (\E i \in Pages : promises[i] = "none" /\ promises'[i] # "none")
              => colPc = "probing" ]_vars

\* the probe has reported more than one page of records and a request is
\* in flight for each of the pages
C30_Witness ==
    /\ colPc = "paging"
    /\ pageCount = 2
    /\ promises[1] = "pending"
    /\ promises[2] = "pending"
    /\ collected = <<>>

\* C22: every pipeline run terminates: when every HTTP attempt and every
\* store operation completes or fails, the ingestion flow reaches Done or
\* Failed, the price-change flow reaches Done or Failed, and every request
\* ends, returned or thrown.
C22_RunTerminates ==
    /\ (scrPc \in Range(ScraperPhases)) ~> (scrPc \in {"Done", "Failed"})
    /\ (scrPc \in Range(ScraperPhases)) ~> (engPc \in {"Done", "Failed"})
    /\ \A k \in Kinds :
          (pc[<<1, k>>] \in {"awaitKey", "inflight", "sleeping"})
             ~> (pc[<<1, k>>] \in {"done", "failed"})

\* a run whose flows both ended after a request had used its whole budget
C22_Witness ==
    /\ scrPc = "Done"
    /\ engPc = "Done"
    /\ \E k \in Kinds : pc[<<1, k>>] = "failed" /\ attempt[<<1, k>>] = maxTries

\* C35: in a scrape-and-compare run the Price-Change Engine is started once
\* the ingestion flow has ended, in Done or in Failed alike: a failed fetch
\* or a failed ingest does not keep the diff of the run from running.
C35_EngineStartsAfterEitherEnd ==
    /\ (scrPc = "Done" /\ engPc = "Idle") ~> (engPc = ComparerPhases[1])
    /\ (scrPc = "Failed" /\ engPc = "Idle") ~> (engPc = ComparerPhases[1])

\* the ingestion flow of the run failed and its diff ran to the end
C35_Witness ==
    /\ scrPc = "Failed"
    /\ engPc = "Done"
    /\ <<"scraper", "Failed">> \in Range(events)
    /\ <<"enter", ComparerPhases[1]>> \in Range(events)

(***************************************************************************)
(* Claims about the ingestion writer.                                      *)
(***************************************************************************)
\* C5: when stale removal, the product+price upsert or the promotion upsert
\* fails, every table holds exactly the rows it held when the run started.
C5_FailedRunWritesNothing ==
    ingestPc = "failed" => \A tbl \in Tables : db[tbl] = before[tbl]

\* a run that failed after its transaction had deleted or written rows
C5_Witness ==
    /\ ingestPc = "failed"
    /\ \E tbl \in Tables : tx[tbl] # before[tbl]
    /\ before.Product # {}

\* the products that were stored when the run started and are absent from
\* its snapshot
staleProducts ==
    { p.productId : p \in before.Product }
      \ { apiProducts[i].productId : i \in DOMAIN apiProducts }

\* C6: after a successful ingestion run every stored product absent from
\* the snapshot is gone, and no Price, PriceChange or PromotionProduct row
\* that referenced such a product remains in the store.
C6_StaleProductsAndDependentsGone ==
    ingestPc = "done" =>
      /\ \A p \in db.Product : p.productId \notin staleProducts
      /\ \A r \in before.Price :
            r.productId \in staleProducts =>
              ~ \E n \in db.Price : n.priceId = r.priceId
      /\ \A r \in before.PriceChange :
            r.productId \in staleProducts =>
              ~ \E n \in db.PriceChange : n.pricechangeId = r.pricechangeId
      /\ \A r \in db.PromotionProduct : r.productId \notin staleProducts

\* C7: the store holds at most one Price row per (productId, date), and a
\* run on a day that already has a Price row for a product leaves that row
\* as it was.
C7_OnePricePerProductPerDay ==
    /\ \A r1, r2 \in db.Price :
          (r1.productId # NULL /\ r1.productId = r2.productId /\ r1.date = r2.date)
            => r1 = r2
    /\ ingestPc = "done" =>
          \A r \in before.Price :
            (r.date = today /\ \E i \in DOMAIN apiProducts : apiProducts[i].productId = r.productId)
              => r \in db.Price

\* C8: a run that repeats the snapshot of the run before it leaves every
\* table with the row count it had after that run.
C8_RerunKeepsRowCounts ==
    (ingestPc = "done" /\ rerun) =>
      \A tbl \in Tables : Cardinality(db[tbl]) = Cardinality(before[tbl])

\* C24: after a successful ingestion run the stored productIds are exactly
\* the productIds of the product snapshot, and the stored promotionIds are
\* exactly the promotionIds of the promotion snapshot.
C24_StoredIdsEqualSnapshot ==
    ingestPc = "done" =>
      /\ { p.productId : p \in db.Product }
            = { apiProducts[i].productId : i \in DOMAIN apiProducts }
      /\ { q.promotionId : q \in db.Promotion }
            = { apiPromotions[i].promotionId : i \in DOMAIN apiPromotions }

\* a run that found a stored product absent from its snapshot, and whose
\* promotion snapshot is not empty
C24_Witness ==
    /\ ingestPc = "done"
    /\ staleProducts # {}
    /\ apiPromotions # <<>>

\* the record of promotion q that the run stores: its last occurrence in
\* the promotion snapshot
snapshotOf(q) ==
    apiPromotions[CHOOSE i \in DOMAIN apiPromotions :
                     /\ apiPromotions[i].promotionId = q
                     /\ \A j \in DOMAIN apiPromotions :
                           apiPromotions[j].promotionId = q => j <= i]

\* C25: after a successful ingestion run the stored PromotionProduct,
\* Benefit and PromotionText rows of every promotion of the snapshot are
\* exactly the rows derived from the snapshot, and none of them was written
\* by an earlier run.
C25_DependentsReplaced ==
    ingestPc = "done" =>
      \A q \in { apiPromotions[i].promotionId : i \in DOMAIN apiPromotions } :
         /\ { r.productId : r \in { x \in db.PromotionProduct : x.promotionId = q } }
               = { apiProducts[i].productId :
                     i \in { j \in DOMAIN apiProducts :
                               apiProducts[j].technicalArticleNumber
                                 \in Range(snapshotOf(q).linkedTechnicalArticleNumber) } }
         /\ LET stored == { r \in db.Benefit : r.promotionId = q }
            IN  /\ Cardinality(stored) = Len(snapshotOf(q).benefit)
                /\ { r.benefitAmount : r \in stored }
                      = { snapshotOf(q).benefit[n].benefitAmount :
                            n \in DOMAIN snapshotOf(q).benefit }
                /\ \A r \in stored : r.id >= before.nextBenefitId
         /\ LET stored == { r \in db.PromotionText : r.promotionId = q }
            IN  /\ Cardinality(stored) = Len(snapshotOf(q).text)
                /\ { r.text : r \in stored }
                      = { snapshotOf(q).text[n].text : n \in DOMAIN snapshotOf(q).text }
                /\ \A r \in stored : r.id >= before.nextTextId

\* a run on a store that held a link, a benefit and a text of a promotion of
\* its snapshot, which now has none of them
C25_Witness ==
    /\ ingestPc = "done"
    /\ \E q \in { apiPromotions[i].promotionId : i \in DOMAIN apiPromotions } :
          /\ \E r \in before.PromotionProduct : r.promotionId = q
          /\ \E r \in before.Benefit : r.promotionId = q
          /\ \E r \in before.PromotionText : r.promotionId = q
          /\ snapshotOf(q).benefit = <<>>
          /\ snapshotOf(q).linkedTechnicalArticleNumber = <<>>

\* C28: for every promotion of the snapshot the store holds the row
\* (promotionId, productId) exactly for the products of the batch whose
\* technicalArticleNumber is in the promotion's list; a number that no
\* product of the batch carries gives no row, and the run succeeds.
C28_LinksForResolvedNumbers ==
    ingestPc = "done" =>
      \A q \in { apiPromotions[i].promotionId : i \in DOMAIN apiPromotions } :
         /\ \A n \in DOMAIN snapshotOf(q).linkedTechnicalArticleNumber :
               \A i \in DOMAIN apiProducts :
                  apiProducts[i].technicalArticleNumber
                      = snapshotOf(q).linkedTechnicalArticleNumber[n]
                    => [promotionId |-> q, productId |-> apiProducts[i].productId]
                          \in db.PromotionProduct
         /\ \A r \in db.PromotionProduct :
               r.promotionId = q =>
                 \E n \in DOMAIN snapshotOf(q).linkedTechnicalArticleNumber :
                    \E i \in DOMAIN apiProducts :
                       /\ apiProducts[i].productId = r.productId
                       /\ apiProducts[i].technicalArticleNumber
                            = snapshotOf(q).linkedTechnicalArticleNumber[n]

\* the numbers "A,B" of a promotion where only A is the number of a product
\* of the batch: one row
C28_Witness ==
    /\ ingestPc = "done"
    /\ \E q \in PromotionIds :
          /\ \E i \in DOMAIN apiPromotions : apiPromotions[i].promotionId = q
          /\ snapshotOf(q).linkedTechnicalArticleNumber = <<TanOf(1), UnknownTan>>
          /\ { r \in db.PromotionProduct : r.promotionId = q }
                = { [promotionId |-> q, productId |-> 1] }

\* C29: after a successful ingestion run the store holds, for every
\* productId of the incoming list, exactly one Product row, and it carries
\* the attributes of the last record of that id in the list, whatever was
\* stored for the id before.
C29_LastOccurrenceStored ==
    ingestPc = "done" =>
      \A i \in DOMAIN apiProducts :
         (\A j \in i + 1 .. Len(apiProducts) :
             apiProducts[j].productId # apiProducts[i].productId)
           => { p \in db.Product : p.productId = apiProducts[i].productId }
                = { [productId |-> apiProducts[i].productId,
                     technicalArticleNumber |-> apiProducts[i].technicalArticleNumber,
                     name |-> apiProducts[i].name] }

\* a list with two records of a stored product, the last one with other
\* attributes than the first and than the stored row
C29_Witness ==
    /\ ingestPc = "done"
    /\ Len(apiProducts) = 2
    /\ apiProducts[1].productId = apiProducts[2].productId
    /\ apiProducts[1].name # apiProducts[2].name
    /\ \E p \in before.Product :
          p.productId = apiProducts[2].productId /\ p.name # apiProducts[2].name

\* C38: for a product present both in the store and in the fresh snapshot a
\* successful ingestion run leaves its PriceChange rows and its Price rows
\* inside the retention window unchanged; the only change to its Price rows
\* is the insertion of today's row when none exists yet.
C38_KeptProductFrame ==
    ingestPc = "done" =>
      \A p \in before.Product :
         (\E i \in DOMAIN apiProducts : apiProducts[i].productId = p.productId) =>
            LET added == { r \in db.Price \ before.Price : r.productId = p.productId }
            IN  /\ { r \in db.PriceChange : r.productId = p.productId }
                     = { r \in before.PriceChange : r.productId = p.productId }
                /\ \A r \in before.Price :
                      (r.productId = p.productId /\ ~olderThanKept(r.date, today))
                         => r \in db.Price
                /\ \A r \in added : r.date = today
                /\ IF \E r \in before.Price : r.productId = p.productId /\ r.date = today
                     THEN added = {}
                     ELSE Cardinality(added) = 1

\* C31: for fixed page responses the Product rows a run stores are the same
\* for every completion order of the page requests, so they are the rows
\* the run stores when the pages complete in page order, also when one
\* productId is on two pages with different attributes.
C31_StoredProductsOrderFree ==
    (runs > 0 /\ colPc = "idle" /\ resource = "products"
       /\ apiProducts = resProducts(returned)) =>
       db.Product =
          saveProducts(handleStaleData(before, before, resProducts(inPageOrder(pageCount)),
                                       apiPromotions, today),
                       resProducts(inPageOrder(pageCount)), today).Product

\* C32: when the count probe or a page request of the product or promotion
\* collection fails, the ingestion writer is not run with the incomplete
\* snapshot: the transaction runs only on a collection whose pages were
\* all fulfilled and that holds every item of them, and the store changes
\* only in that transaction.
C32_NoIngestOfIncompleteSnapshot ==
    [][ /\ runs' # runs =>
              /\ colPc = "returned"
              /\ \A i \in 1 .. pageCount :
                    /\ promises[i] = "fulfilled"
                    /\ \A k \in DOMAIN bodies[i] :
                          occurrences(returned, bodies[i][k]) = 1
              /\ resource = "products" => apiProducts' = resProducts(returned)
              /\ resource = "promotions" => Len(apiPromotions') = Len(returned)
        /\ db' # db => runs' # runs ]_vars

\* a stored catalog, and a collection that threw because a page request
\* failed after another page had been answered: the store is as it was
C32_Witness ==
    /\ colPc = "threw"
    /\ ingestPc = "idle"
    /\ runs > 0
    /\ db.Product # {}
    /\ \E i, j \in 1 .. pageCount :
          /\ promises[i] = "rejected"
          /\ promises[j] = "fulfilled"
          /\ bodies[j] # <<>>

\* C18: after a successful ingestion run no Price row dated more than
\* AMOUNT_OF_DAYS_KEPT days before the run date remains, and every Price row
\* dated exactly AMOUNT_OF_DAYS_KEPT days before the run date is still there.
C18_RetentionWindow ==
    ingestPc = "done" =>
      /\ \A r \in db.Price : r.date >= today - AMOUNT_OF_DAYS_KEPT
      /\ \A r \in before.Price :
            r.date = today - AMOUNT_OF_DAYS_KEPT =>
              \E n \in db.Price : n.priceId = r.priceId /\ n.date = r.date

\* a run that found a Price row dated exactly at the boundary
C18_Witness ==
    /\ ingestPc = "done"
    /\ \E r \in before.Price : r.date = today - AMOUNT_OF_DAYS_KEPT
    /\ \E r \in db.Price : r.date = today

(***************************************************************************)
(* Claims about the price-change engine.                                   *)
(***************************************************************************)
\* today's value of a tier in a price row
tierValue(row, tier) == IF tier = BASIC THEN row.basicPrice ELSE row.quantityPrice

\* yesterday's value the tier is compared against: Undefined without a
\* yesterday row, Null when the row has none
oldValue(row, tier) ==
    IF tier = BASIC
      THEN earlierBasic(earlierList, row.productId)
      ELSE nullish(earlierQuantity(earlierList, row.productId),
                   earlierBasic(earlierList, row.productId))

exists(x) == x # Null /\ x # Undefined

emitted == updatedPriceChanges \o newPriceChanges

\* C9: for each of today's price rows with a non-null value for a tier, a
\* record for (productId, tier) is emitted if and only if yesterday's value
\* exists and differs from today's, or the product has no yesterday row or
\* no change record for the tier.
C9_EmitsIffChangedOrFirst ==
    diffPc = "compared" =>
      \A i \in DOMAIN laterList : \A tier \in PriceChangeTypes :
         tierValue(laterList[i], tier) # Null =>
           ( (\E n \in DOMAIN emitted :
                 /\ emitted[n].productId = laterList[i].productId
                 /\ emitted[n].priceChangeType = tier)
             <=>
             \/ /\ exists(oldValue(laterList[i], tier))
                /\ oldValue(laterList[i], tier) # tierValue(laterList[i], tier)
             \/ ~earlierPriceMapHas(earlierList, laterList[i].productId)
             \/ ~existingPriceChangeMapHas(priceChanges, laterList[i].productId, tier) )

\* C10: every emitted record carries today's tier value as newprice; for a
\* changed price oldPrice is the old value, priceChange = new - old and
\* priceChangePercentage = priceChange / old when old > 0 and 0 otherwise;
\* for the first-observation baseline priceChange = 0, the percentage is 0
\* and oldPrice = newprice.
C10_RecordValues ==
    diffPc = "compared" =>
      \A n \in DOMAIN emitted :
        \E i \in DOMAIN laterList :
          LET r == emitted[n]
              new == tierValue(laterList[i], r.priceChangeType)
              old == oldValue(laterList[i], r.priceChangeType)
          IN  /\ laterList[i].productId = r.productId
              /\ r.newprice = new
              /\ IF exists(old) /\ old # new
                   THEN /\ r.oldPrice = old
                        /\ r.priceChange = new - old
                        /\ sameRatio(r.priceChangePercentage,
                                     IF old > 0 THEN ratio(new - old, old) ELSE ratio(0, 1))
                   ELSE /\ r.priceChange = 0
                        /\ sameRatio(r.priceChangePercentage, ratio(0, 1))
                        /\ r.oldPrice = r.newprice

\* C33: every record emitted by getPriceChange satisfies priceChange =
\* newprice - oldPrice, also when yesterday's price row exists but holds no
\* value for the tier.
C33_ChangeIsDifference ==
    diffPc = "compared" =>
      \A n \in DOMAIN emitted :
         emitted[n].priceChange = emitted[n].newprice - emitted[n].oldPrice

(***************************************************************************)
(* Claims about the price-change run.                                      *)
(***************************************************************************)
\* C11: after any sequence of price-change runs the PriceChange table holds
\* at most one row per (productId, priceChangeType), for every product the
\* rows reference.
C11_OneChangePerProductTier ==
    \A r1, r2 \in db.PriceChange :
       (/\ r1.productId # NULL
        /\ r1.productId = r2.productId
        /\ r1.priceChangeType = r2.priceChangeType) => r1 = r2

\* a run whose new records collide on (productId, priceChangeType) has
\* been rejected
C11_Witness ==
    /\ cmpPc = "failed"
    /\ cmpError = "unique"
    /\ \E i, j \in DOMAIN pricesToday :
          i # j /\ pricesToday[i].productId = pricesToday[j].productId

\* no ingestion run has committed since the price-change run started
undisturbed ==
    /\ cmpBefore = readFrom["today"]
    /\ cmpBefore = readFrom["yesterday"]
    /\ cmpBefore = readFrom["changes"]
    /\ \A tbl \in Tables \ {"PriceChange"} : db[tbl] = cmpBefore[tbl]

\* C12: two price-change runs in a row on the same stored prices both
\* succeed, and the second leaves the PriceChange table as the first left it.
C12_RerunLeavesChanges ==
    (/\ cmpRerun
     /\ cmpPc \in {"done", "failed"}
     /\ cmpError # "store"
     /\ cmpPrev.error # "store"
     /\ undisturbed)
      => /\ cmpPrev.outcome = "done"
         /\ cmpPc = "done"
         /\ db.PriceChange = cmpPrev.PriceChange

\* C23: when the insert of the new change records or an update of an
\* existing change record fails in a price-change run, the run ends in
\* Failed and the PriceChange table holds exactly the rows it held before
\* the run.
C23_FailedRunKeepsChanges ==
    (cmpPc \in {"done", "failed"} /\ cmpError # "none" /\ undisturbed)
       => /\ cmpPc = "failed"
          /\ db.PriceChange = cmpBefore.PriceChange

\* a run that failed with records to insert and records to update
C23_Witness ==
    /\ cmpPc = "failed"
    /\ cmpError = "store"
    /\ loaded = Queries
    /\ undisturbed
    /\ getPriceChange(pricesYesterday, pricesToday, storedChanges).updatedPriceChanges # <<>>
    /\ getPriceChange(pricesYesterday, pricesToday, storedChanges).newPriceChanges # <<>>

\* C19: when an ingestion run and a price-change run overlap, the three
\* reads of the price-change run (today's prices, yesterday's prices, the
\* change records) all show one state of the store: the state before the
\* ingestion or the state after it, never a mixture.
C19_ReadsOneStoreState ==
    loaded = Queries =>
      \E q \in Queries :
         /\ pricesOfDay(readFrom[q], cmpDay) = pricesOfDay(readFrom["today"], cmpDay)
         /\ pricesOfDay(readFrom[q], cmpDay - 1)
               = pricesOfDay(readFrom["yesterday"], cmpDay - 1)
         /\ allPriceChanges(readFrom[q]) = allPriceChanges(readFrom["changes"])

\* C21: a price-change run only creates or updates PriceChange rows: it
\* deletes no PriceChange row and leaves every other table as it was; an
\* ingestion run inserts no PriceChange row and updates none.
C21_ChangeRowsOwnedByEngine ==
    [][ /\ (cmpPc = "loading" /\ cmpPc' # "loading") =>
             /\ \A r \in db.PriceChange :
                   \E n \in db'.PriceChange : n.pricechangeId = r.pricechangeId
             /\ \A tbl \in Tables \ {"PriceChange"} : db'[tbl] = db[tbl]
        /\ runs' # runs => db'.PriceChange \subseteq db.PriceChange ]_vars

\* C34: when ingestion and the price-change flow both run successfully once
\* every day, then after each day's price-change run a PriceChange row
\* exists for every product and tier with a non-null price today, and its
\* newprice is today's price of the tier.
C34_RowHoldsTodaysPrice ==
    runs > 0 =>
      \A r \in db.Price : \A tier \in PriceChangeTypes :
         (r.date = today /\ tierValue(r, tier) # Null) =>
            \E c \in db.PriceChange :
               /\ c.productId = r.productId
               /\ c.priceChangeType = tier
               /\ c.newprice = tierValue(r, tier)

C36_OverlappingRunsSafe ==
    LET ended == IF cmpPc = "loading" THEN cmpRuns - 1 ELSE cmpRuns
        overlapped ==
            \/ otherRun.firstLoaded /\ ended = otherRun.wroteAt + 1
            \/ otherRun.wroteAt = otherRun.readAt + 1 /\ ended = otherRun.wroteAt
    IN  (cmpPc \in {"done", "failed"} /\ otherRun.pc \in {"done", "failed"} /\ overlapped)
           => /\ cmpPc = "done"
              /\ otherRun.pc = "done"
              /\ \A a, b \in db.PriceChange : sameChangeKey(a, b) => a = b

\* C26: a record getPriceChange emits is in updatedPriceChanges if and only
\* if the existing change records hold one for its (productId, tier), and in
\* newPriceChanges otherwise; a record of the other tier of the product does
\* not make it updated.
C26_UpdatedIffRecordExists ==
    diffPc # "ready" =>
      /\ \A i \in DOMAIN updatedPriceChanges :
            \E j \in DOMAIN priceChanges :
               /\ priceChanges[j].productId = updatedPriceChanges[i].productId
               /\ priceChanges[j].priceChangeType = updatedPriceChanges[i].priceChangeType
      /\ \A i \in DOMAIN newPriceChanges :
            ~ \E j \in DOMAIN priceChanges :
                 /\ priceChanges[j].productId = newPriceChanges[i].productId
                 /\ priceChanges[j].priceChangeType = newPriceChanges[i].priceChangeType

\* a new record of the quantity tier next to an updated record of the basic
\* tier of the same product
C26_Witness ==
    /\ diffPc = "compared"
    /\ \E i \in DOMAIN newPriceChanges, j \in DOMAIN updatedPriceChanges :
          /\ newPriceChanges[i].productId = updatedPriceChanges[j].productId
          /\ newPriceChanges[i].priceChangeType = QUANTITY
          /\ updatedPriceChanges[j].priceChangeType = BASIC

\* C27: the old value of the QUANTITY tier is yesterday's quantityPrice when
\* it exists and otherwise yesterday's basicPrice of the product; the old
\* value of the BASIC tier is yesterday's basicPrice, whatever the quantity
\* price.
C27_OldValueOfTier ==
    diffPc # "ready" =>
      \A n \in DOMAIN emitted :
         LET e == emitted[n]
             y == earlierPriceMapGet(earlierList, e.productId)
             old == IF e.priceChangeType = QUANTITY /\ y.quantityPrice # Null
                      THEN y.quantityPrice ELSE y.basicPrice
         IN  (earlierPriceMapHas(earlierList, e.productId) /\ old # Null) =>
                /\ e.oldPrice = old
                /\ e.priceChange = e.newprice - old

\* a record of each tier of one product whose yesterday row has a quantity
\* price other than its basic price, and a quantity record of a product
\* whose yesterday row has a basic price only
C27_Witness ==
    /\ diffPc = "compared"
    /\ \E n, k \in DOMAIN emitted :
          /\ emitted[n].productId = emitted[k].productId
          /\ emitted[n].priceChangeType = QUANTITY
          /\ emitted[k].priceChangeType = BASIC
          /\ emitted[n].oldPrice # emitted[k].oldPrice
          /\ emitted[n].oldPrice # emitted[n].newprice
          /\ emitted[k].oldPrice # emitted[k].newprice

C16_ProxyDrawnPerAttempt ==
    \A r \in Requests : pc[r] = "inflight" => httpAgent[r] = drawn[r]

\* C17: when the first k attempts of a request fail with retryable errors
\* and attempt k+1 succeeds, proxiedRequest returns the body of that
\* response after exactly k backoff delays; the delay after the n-th failure
\* is 2^n * 1000 ms plus a jitter in [0, 1000) ms and is strictly larger than
\* the delay before it.
C17_BackoffSchedule ==
    /\ \A r \in Requests :
          /\ slept[r] >= 1 => delayTime[r] - (2 ^ slept[r]) * 1000 \in 0 .. 999
          /\ slept[r] >= 2 => delayTime[r] > prevDelayTime[r]
    /\ \A c \in CallIds :
          pc[<<c, "main">>] = "done" =>
             /\ data[c] \in Bodies
             /\ data[c] = responseData[c]
             /\ attempt[<<c, "main">>] < maxTries
             /\ slept[<<c, "main">>] = attempt[<<c, "main">>]
             /\ gets[<<c, "main">>] = attempt[<<c, "main">>] + 1

\* a call that succeeded at its third attempt, the first delay with the
\* largest jitter and the second with the smallest
C17_Witness ==
    \E c \in CallIds :
        /\ pc[<<c, "main">>] = "done"
        /\ slept[<<c, "main">>] = 2
        /\ prevDelayTime[<<c, "main">>] = 2999
        /\ delayTime[<<c, "main">>] = 4000

=============================================================================
